---- MODULE Spec2Model ----
(***************************************************************************)
(* Model of the Bybit streaming client (src/api/websocket.py): the         *)
(* BybitWebSocket object, its connect()/subscribe()/unsubscribe()/close()   *)
(* methods as run by caller threads, and the _monitor_connection loop run   *)
(* by the monitor threads that connect() starts.  The code takes no lock,   *)
(* so every step between two reads or writes of shared fields that another  *)
(* thread can observe is an action of its own.  The second part models      *)
(* BaseStrategy (src/strategy/base_strategy.py): analyze(), its per-symbol  *)
(* cache and check_multi_timeframe_confirmation(), and of DonchianStrategy  *)
(* (src/strategy/donchian_strategy.py) calculate_indicators(),              *)
(* generate_signals() and calculate_position_size().  The third part models *)
(* the wrapper of the retry decorator (src/utils/decorators.py).            *)
(***************************************************************************)
EXTENDS Integers, Sequences, FiniteSets, TLC

(*------------------------------ bounds ----------------------------------*)
\* Monitor thread objects that can be alive at the same time.
MaxMonitors == 2
\* reconnect_attempts is counted exactly up to this value and then stays
\* there; the loop only compares it with max_consecutive_failures (5).
MaxAttempts == 6
\* Consecutive failures a monitor is followed through where the length of the
\* run of failures plays no part.
MaxFailures == 1
\* Dotted parts after the first token(s) of the topic strings that are tried.
MaxParts == 3
\* Rows of the largest DataFrame passed to analyze().
MaxBars == 32
\* analyze() calls that are followed on one strategy object.
MaxCalls == 3
\* The largest price of the bars given to generate_signals().
MaxPrice == 4
\* The largest of the small risk amounts given to calculate_position_size().
MaxRisk == 3
\* The largest max_attempts given to retry().
MaxTries == 3

(*------------------------- program constants ----------------------------*)
reconnect_interval == 30
max_consecutive_failures == 5
tick_interval == 10

(*------------------------------ universe --------------------------------*)
\* Thread objects: the monitor threads are 1..MaxMonitors, the caller threads
\* are numbered from 101; Ctor is the caller that constructs the object.
Callers == {101, 102}
Ctor == CHOOSE c \in Callers : \A d \in Callers : c <= d
MonIds == 1..MaxMonitors
Threads == Callers \cup MonIds

\* A topic string is the sequence of its tokens: "ticker.BTCUSDT" is
\* <<"ticker", ".", "BTCUSDT">> and "positions" is <<"position", "s">>.  No
\* category is the beginning of another token.
Categories == {"position", "execution", "order", "wallet", "ticker", "kline"}
Dot == "."
Symbols == {"BTCUSDT"}
Intervals == {"15"}
\* The topics the caller threads subscribe next to the monitor threads.
Topics == {<<"position">>, <<"ticker", ".", "BTCUSDT">>, <<"ticker">>}
\* Callback references handed to subscribe(); 0 is "no callback".
Cbs == {1}
NoCb == 0

\* What a call returned: the method and its value; NoRet while none has.
NoRet == [op |-> "none", val |-> FALSE]
Result(op, val) == [op |-> op, val |-> val]

\* self.ws = None
NoWs == [obj |-> FALSE, connected |-> FALSE, subs |-> {}]

\* No message has been handed to a handler yet.
NoMsg == [stream |-> "none", symbol |-> <<>>, interval |-> <<>>]
NoInbound == [msg |-> NoMsg, key |-> <<>>, calls |-> <<>>]

VARIABLES
    WebSocket,       \* self.WebSocket is not None (the pybit import worked)
    ws,              \* self.ws: the session object, its socket state, its streams
    orphans,         \* sessions overwritten in self.ws while still open
    callbacks,       \* self.callbacks
    topics,          \* self.topics
    is_running,      \* self.is_running
    monitor_thread,  \* self.monitor_thread: 0 (None) or a monitor thread
    pingDue,         \* time.time() - self.last_ping_time > self.ping_interval
    pc,              \* where each thread is
    current_topics,  \* connect(): the local current_topics of each thread
    todo,            \* connect(): topics the resubscribe loop has yet to visit
    ret,             \* the value the thread's last connect() returned
    args,            \* subscribe()/unsubscribe(): the rest of the topics list
    cbArg,           \* subscribe(): the callback argument
    success,         \* subscribe(): the local success
    reconnect_attempts, \* _monitor_connection(): the local counter
    sleepDur,        \* _monitor_connection(): length of the sleep in progress
    constructed,     \* __init__ has returned
    closed,          \* history: close() returned, no caller called connect() since
    failed,          \* history: topics whose resubscribe failed in this connect()
    raced,           \* history: topics subscribed during this connect()
    failLog,         \* history: sleeps after the failures since the last success
    recovered,       \* history: the monitor reconnected after at least one failure
    sendDue,         \* history: more than ping_interval since a ping was last sent
    pinged,          \* history: what the heartbeat part of the monitor's tick did
    stalled,         \* threads whose constructor call outlasts the signature
    late,            \* history: the session in self.ws was set up after expires
    inbound,         \* history: the last message a handler got, the callbacks it called
    strategyClass,   \* BaseStrategy: the class of the strategy object
    indicators,      \* BaseStrategy: self.indicators
    cached_signals,  \* BaseStrategy: self.cached_signals
    last_update_time, \* BaseStrategy: self.last_update_time
    apc,             \* analyze(): where the call is
    df,              \* analyze(): the df argument
    symbol,          \* analyze(): the symbol argument
    returned,        \* analyze(): what the decorated method returned
    invoked,         \* history: the methods the call in progress has called
    calls,           \* history: the analyze() calls made so far; it serves as the clock
    origin,          \* history: the call that wrote each entry of indicators, cached_signals
    observed,        \* history: what the last reader of the cache found for a symbol
    cleared,         \* history: the last clear_cache() argument and the cache before it
    cpc,             \* check_multi_timeframe_confirmation(): where the call is
    base_interval,   \* check_multi_timeframe_confirmation(): the argument
    signal_type,     \* check_multi_timeframe_confirmation(): the argument
    check_intervals, \* check_multi_timeframe_confirmation(): the local list
    to_check,        \* check_multi_timeframe_confirmation(): intervals the loop has yet to visit
    confirmations,   \* check_multi_timeframe_confirmation(): the local counter
    details,         \* check_multi_timeframe_confirmation(): the local details, in loop order
    confirmation,    \* check_multi_timeframe_confirmation(): what it returned
    bar,             \* generate_signals(): the closes and the indicators it reads
    generated,       \* generate_signals(): what it returned
    window,          \* calculate_indicators(): what it reads of the df window
    order,           \* calculate_position_size(): the arguments
    sized,           \* calculate_position_size(): what it returned
    rpc,             \* retry wrapper: where the call is
    retry_args,      \* retry(): max_attempts, delay, exponential_backoff, allowed_exceptions
    attempt,         \* retry wrapper: the loop variable
    last_exception,  \* retry wrapper: the local
    tried,           \* history: how each call of the wrapped function ended
    slept,           \* history: the time.sleep() durations of the call
    retried          \* retry wrapper: what it returned or raised

shared == <<WebSocket, ws, orphans, callbacks, topics, is_running, monitor_thread, pingDue>>
frames == <<current_topics, todo, ret, args, cbArg, success>>
monloc == <<reconnect_attempts, sleepDur, failLog, recovered>>
hist == <<closed, failed, raced>>
heartbeat == <<sendDue, pinged>>
auth == <<stalled, late>>
socket == <<shared, pc, frames, monloc, constructed, hist, heartbeat, auth, inbound>>
cache == <<indicators, cached_signals, last_update_time, origin>>
analysis == <<apc, df, symbol, returned, invoked, calls>>
confirm == <<cpc, base_interval, signal_type, check_intervals, to_check, confirmations, details, confirmation>>
rules == <<bar, generated, window>>
sizing == <<order, sized>>
strategy == <<strategyClass, cache, analysis, observed, cleared, confirm, rules, sizing>>
retrying == <<rpc, retry_args, attempt, last_exception, tried, slept, retried>>
vars == <<socket, strategy, retrying>>

(*------------------------------ helpers ---------------------------------*)
Min(a, b) == IF a < b THEN a ELSE b

\* threading.Thread.is_alive()
IsAlive(m) == pc[m] # "dead"

\* self.ws.ws.sock and self.ws.ws.sock.connected, False when there is no session
SockConnected == ws.obj /\ ws.connected

InConnect(th) == pc[th] \in {"c_begin", "c_construct", "c_check", "c_resub", "c_monchk", "c_spawn"}
\* connect() has taken its snapshot and has not returned yet
AfterSnapshot(th) == pc[th] \in {"c_construct", "c_check", "c_resub", "c_monchk", "c_spawn"}

\* self.ws.exit(): the session's socket is closed; its streams stop
Exited(s) == [s EXCEPT !.connected = FALSE]

\* topic.startswith(category): the string begins with the category, whatever
\* follows it
StartsWith(topic, category) == Len(topic) >= 1 /\ topic[1] = category

\* The places of the "." in a topic string: "." in topic is Dots(topic) # {}
Dots(topic) == {i \in 1..Len(topic) : topic[i] = Dot}
\* topic.split(".", 1)[1], for a topic with a "." in it
AfterFirstDot(topic) ==
    LET i == CHOOSE k \in Dots(topic) : \A j \in Dots(topic) : k <= j
    IN  SubSeq(topic, i + 1, Len(topic))
\* len(topic.split("."))
PartCount(topic) == Cardinality(Dots(topic)) + 1

\* Which stream call _subscribe_topic makes for a topic: "" when it returns
\* False before calling the transport.
StreamFor(topic) ==
    IF StartsWith(topic, "position") THEN "position_stream"
    ELSE IF StartsWith(topic, "execution") THEN "execution_stream"
    ELSE IF StartsWith(topic, "order") THEN "order_stream"
    ELSE IF StartsWith(topic, "wallet") THEN "wallet_stream"
    ELSE IF StartsWith(topic, "ticker") THEN
        (IF Dots(topic) # {} /\ AfterFirstDot(topic) # <<>> THEN "ticker_stream" ELSE "")
    ELSE IF StartsWith(topic, "kline") THEN
        (IF PartCount(topic) = 3 THEN "kline_stream" ELSE "")
    ELSE ""

\* The dict self.callbacks: an empty one, one after d[topic] = cb, one after
\* del d[topic], and d.get(topic) with NoCb for a missing key.
NoCallbacks == [t \in {} |-> NoCb]
Stored(d, topic, cb) == [t \in DOMAIN d \cup {topic} |-> IF t = topic THEN cb ELSE d[t]]
Deleted(d, topic) == [t \in DOMAIN d \ {topic} |-> d[t]]
Registered(d, topic) == IF topic \in DOMAIN d THEN d[topic] ELSE NoCb

\* _subscribe_topic(topic, callback) returns True; transportOk says whether the
\* stream call of the session returned (TRUE) or raised (FALSE).
SubscribeTopicOk(topic, transportOk) ==
    ws.obj /\ StreamFor(topic) # "" /\ transportOk

\* self.callbacks after _subscribe_topic(topic, callback)
SubscribeTopicCallbacksAlways(topic, cb) ==
    IF ws.obj THEN Stored(callbacks, topic, cb) ELSE callbacks
SubscribeTopicCallbacks(topic, cb) ==
    IF ws.obj /\ cb # NoCb THEN Stored(callbacks, topic, cb) ELSE callbacks

\* self.ws after _subscribe_topic(topic, callback)
SubscribeTopicWs(topic, transportOk) ==
    IF SubscribeTopicOk(topic, transportOk)
    THEN [ws EXCEPT !.subs = @ \cup {topic}]
    ELSE ws

(*--------------------------- BaseStrategy -------------------------------*)
\* Python values: None, a dict as the record of its keys.
None == [none |-> TRUE]
EmptyDict == [k \in {} |-> None]
\* dict.get(key, default)
Get(d, key, default) == IF d # None /\ key \in DOMAIN d THEN d[key] ELSE default

\* A DataFrame as far as analyze() looks at it: len(df) and whether it has
\* columns; df.empty is true when either axis has length 0.
NoDf == [rows |-> 0, columns |-> FALSE]
DataFrames == [rows : 0..MaxBars, columns : BOOLEAN]
Empty(d) == d.rows = 0 \/ ~d.columns
\* A str passed where analyze() expects the DataFrame: it has no attribute
\* "empty".
StrArg == [str |-> TRUE]

StrategyClasses == {"BaseStrategy", "DonchianStrategy"}
StrategySymbols == Symbols \cup {"UNKNOWN"}
\* The strings that can be keys of the cache dicts: "" is one of them.
CacheKeys == Symbols \cup {""}
\* DonchianStrategy.__init__: the defaults of period and atr_period
period == 20
atr_period == 14
\* get_min_required_candles() of the base class (line 150) and of
\* DonchianStrategy (donchian_strategy.py line 55)
get_min_required_candles(cls) ==
    IF cls = "DonchianStrategy"
    THEN (IF period >= atr_period THEN period ELSE atr_period) + 10
    ELSE 20

\* Line 91: the window is shorter than the strategy needs.
TooFewLax(d, cls) == d.rows < get_min_required_candles(cls) - 1
TooFew(d, cls) == d.rows < get_min_required_candles(cls)

\* What calculate_indicators() can give back: a dict, or None when the
\* subclass decorated it with handle_errors and it failed.
Indicators == {[computed |-> TRUE], None}
\* What generate_signals() can give back: a dict with or without the keys
\* "signal" and "strength" (strength in hundredths), or None as above.
Signals ==
    {[signal |-> "buy", strength |-> 80], [signal |-> "neutral", strength |-> 0],
     EmptyDict, None}

\* analyze() has not returned.
Pending == [pending |-> TRUE]
\* The dict of lines 79-87 and, with the "error" key, of lines 93-102
Neutral(sym, withError) ==
    IF withError
    THEN [signal |-> "neutral", strength |-> 0, indicators |-> EmptyDict, symbol |-> sym,
          error |-> TRUE]
    ELSE [signal |-> "neutral", strength |-> 0, indicators |-> EmptyDict, symbol |-> sym]

\* A strategy object after __init__ (lines 28-33), no method called.
NoAnalysisOf(classes, bars) ==
    /\ strategyClass \in classes
    /\ indicators = EmptyDict
    /\ cached_signals = EmptyDict
    /\ last_update_time = EmptyDict
    /\ origin = [indicators |-> EmptyDict, cached_signals |-> EmptyDict]
    /\ apc = "idle"
    /\ df = NoDf
    /\ symbol = "UNKNOWN"
    /\ returned = Pending
    /\ invoked = <<>>
    /\ calls = 0
    /\ observed = <<>>
    /\ cleared = <<>>
    /\ cpc = "idle"
    /\ base_interval = ""
    /\ signal_type = ""
    /\ check_intervals = <<>>
    /\ to_check = <<>>
    /\ confirmations = 0
    /\ details = <<>>
    /\ confirmation = Pending
    /\ bar \in bars
    /\ generated = Pending
    /\ window = EmptyDict
    /\ order = EmptyDict
    /\ sized = Pending

NoAnalysis == NoAnalysisOf({"BaseStrategy"}, {EmptyDict})

\* analyze(df, symbol) is called on the strategy object with one of frames and
\* one of symbols.
AnalyzeCallWith(frames_, symbols_) ==
    /\ apc \in {"idle", "done"}
    /\ cpc \in {"idle", "done"}
    /\ calls < MaxCalls
    /\ calls' = calls + 1
    /\ df' \in frames_
    /\ symbol' \in symbols_
    /\ apc' = "a_empty"
    /\ returned' = Pending
    /\ invoked' = <<>>
    /\ cleared' = <<>>
    /\ UNCHANGED <<strategyClass, cache, observed, confirm, rules, sizing>>
    /\ UNCHANGED <<socket, retrying>>

AnalyzeCall == AnalyzeCallWith(DataFrames, Symbols)

\* Lines 77-87: the empty DataFrame; df.empty of a str raises AttributeError
\* and handle_errors makes analyze() return None (decorators.py line 44).
AnalyzeEmpty ==
    /\ apc = "a_empty"
    /\ IF df = StrArg
       THEN /\ returned' = None
            /\ apc' = "done"
       ELSE IF Empty(df)
       THEN /\ returned' = Neutral(symbol, FALSE)
            /\ apc' = "done"
       ELSE /\ apc' = "a_min"
            /\ UNCHANGED returned
    /\ UNCHANGED <<strategyClass, cache, df, symbol, invoked, calls>>
    /\ UNCHANGED <<observed, cleared, confirm, rules, sizing>>
    /\ UNCHANGED <<socket, retrying>>

\* Lines 90-102: fewer rows than get_min_required_candles().
AnalyzeMinCaching ==
    /\ apc = "a_min"
    /\ IF TooFew(df, strategyClass)
       THEN /\ returned' = Neutral(symbol, TRUE)
            /\ cached_signals' = Stored(cached_signals, symbol, Neutral(symbol, TRUE))
            /\ last_update_time' = Stored(last_update_time, symbol, calls)
            /\ origin' = [origin EXCEPT !.cached_signals = Stored(@, symbol, calls)]
            /\ apc' = "done"
       ELSE /\ apc' = "a_indicators"
            /\ UNCHANGED <<returned, cached_signals, last_update_time, origin>>
    /\ UNCHANGED <<strategyClass, indicators, df, symbol, invoked, calls>>
    /\ UNCHANGED <<observed, cleared, confirm, rules, sizing>>
    /\ UNCHANGED <<socket, retrying>>
AnalyzeMin ==
    /\ apc = "a_min"
    /\ IF TooFew(df, strategyClass)
       THEN /\ returned' = Neutral(symbol, TRUE)
            /\ apc' = "done"
       ELSE /\ apc' = "a_indicators"
            /\ UNCHANGED returned
    /\ UNCHANGED <<strategyClass, cache, df, symbol, invoked, calls>>
    /\ UNCHANGED <<observed, cleared, confirm, rules, sizing>>
    /\ UNCHANGED <<socket, retrying>>

\* Lines 105-115: calculate_indicators(df) and the cache of its result; when it
\* raises, handle_errors makes analyze() return None (decorators.py line 44).
AnalyzeIndicators ==
    /\ apc = "a_indicators"
    /\ invoked' = Append(invoked, "calculate_indicators")
    /\ \/ \E ind \in Indicators :
            /\ indicators' = Stored(indicators, symbol, ind)
            /\ origin' = [origin EXCEPT !.indicators = Stored(@, symbol, calls)]
            /\ apc' = "a_signals"
            /\ UNCHANGED returned
       \/ /\ returned' = None
          /\ apc' = "done"
          /\ UNCHANGED <<indicators, origin>>
    /\ UNCHANGED <<strategyClass, cached_signals, last_update_time, df, symbol, calls>>
    /\ UNCHANGED <<observed, cleared, confirm, rules, sizing>>
    /\ UNCHANGED <<socket, retrying>>

\* Lines 118-140: generate_signals(df, indicators), the caches of its result
\* and the result dict; signals.get on None raises, as generate_signals may,
\* and analyze() returns None.
AnalyzeSignals ==
    /\ apc = "a_signals"
    /\ invoked' = Append(invoked, "generate_signals")
    /\ \/ \E signals \in Signals :
            /\ cached_signals' = Stored(cached_signals, symbol, signals)
            /\ last_update_time' = Stored(last_update_time, symbol, calls)
            /\ origin' = [origin EXCEPT !.cached_signals = Stored(@, symbol, calls)]
            /\ returned' =
                  IF signals = None THEN None
                  ELSE [signal |-> Get(signals, "signal", "neutral"),
                        strength |-> Get(signals, "strength", 0),
                        indicators |-> indicators[symbol],
                        symbol |-> symbol]
       \/ /\ returned' = None
          /\ UNCHANGED <<cached_signals, last_update_time, origin>>
    /\ apc' = "done"
    /\ UNCHANGED <<strategyClass, indicators, df, symbol, calls>>
    /\ UNCHANGED <<observed, cleared, confirm, rules, sizing>>
    /\ UNCHANGED <<socket, retrying>>

\* Lines 179-189 and a read of self.indicators and self.last_update_time by
\* another thread: which call wrote what it finds for sym, 0 for nothing.
ReadCache(sym) ==
    /\ observed' =
         <<[symbol |-> sym,
            indicators |-> IF sym \in DOMAIN indicators THEN origin.indicators[sym] ELSE 0,
            cached_signals |->
                IF sym \in DOMAIN cached_signals THEN origin.cached_signals[sym] ELSE 0,
            last_update_time |->
                IF sym \in DOMAIN last_update_time THEN last_update_time[sym] ELSE 0]>>
    /\ observed' # observed
    /\ UNCHANGED <<strategyClass, cache, analysis, cleared, confirm, rules, sizing>>
    /\ UNCHANGED <<socket, retrying>>

\* Lines 198-212: clear_cache(arg), arg = <<>> for None and <<symbol>> else; an
\* empty string is not true at line 198.
ClearCache(arg) ==
    /\ apc \in {"idle", "done"}
    /\ cpc \in {"idle", "done"}
    /\ cleared' = <<[arg |-> arg, indicators |-> indicators,
                     cached_signals |-> cached_signals,
                     last_update_time |-> last_update_time]>>
    /\ IF arg # <<>> /\ arg[1] # ""
       THEN /\ indicators' = Deleted(indicators, arg[1])
            /\ cached_signals' = Deleted(cached_signals, arg[1])
            /\ last_update_time' = Deleted(last_update_time, arg[1])
            /\ origin' = [indicators |-> Deleted(origin.indicators, arg[1]),
                          cached_signals |-> Deleted(origin.cached_signals, arg[1])]
       ELSE /\ indicators' = EmptyDict
            /\ cached_signals' = EmptyDict
            /\ last_update_time' = EmptyDict
            /\ origin' = [indicators |-> EmptyDict, cached_signals |-> EmptyDict]
    /\ UNCHANGED <<strategyClass, analysis, observed, confirm, rules, sizing>>
    /\ UNCHANGED <<socket, retrying>>

\* donchian_strategy.py line 21: volume_threshold = 1.5, in tenths
volume_threshold == 15

\* donchian_strategy.py lines 157-250, DonchianStrategy.generate_signals: the
\* if/elif chain over the closes and the indicators. Prices and atr are
\* integers ("atr * 0.5" is compared after doubling both sides), volume_ratio
\* is in tenths, roc and volatility are in percent and strength in
\* hundredths, so that min(0.9, 0.5 + volume_ratio / 10 + roc * 10 +
\* volatility / 100) is Min(90, 50 + volume_ratio + 10 * roc + volatility).
generate_signals_uncapped(b) ==
    LET strength(momentum) == 50 + b.volume_ratio + 10 * momentum + b.volatility
        Signal(signal, s) == [signal |-> signal, strength |-> s, price |-> b.current_close]
    IN  IF /\ b.current_close > b.highest_high
           /\ b.previous_close <= b.highest_high
           /\ b.volume_ratio > volume_threshold
           /\ b.trend_up
        THEN Signal("buy", strength(IF b.roc > 0 THEN b.roc ELSE 0))
        ELSE IF /\ b.current_close < b.lowest_low
                /\ b.previous_close >= b.lowest_low
                /\ b.volume_ratio > volume_threshold
                /\ ~b.trend_up
        THEN Signal("sell", strength(IF b.roc < 0 THEN -b.roc ELSE 0))
        ELSE IF b.current_close < b.exit_low /\ b.previous_close >= b.exit_low
        THEN Signal("exit_long", 70)
        ELSE IF b.current_close > b.exit_high /\ b.previous_close <= b.exit_high
        THEN Signal("exit_short", 70)
        ELSE IF /\ 2 * b.current_close > 2 * b.highest_high - b.atr
                /\ b.current_close < b.highest_high
        THEN Signal("buy_weak", 30)
        ELSE IF /\ 2 * b.current_close < 2 * b.lowest_low + b.atr
                /\ b.current_close > b.lowest_low
        THEN Signal("sell_weak", 30)
        ELSE Signal("neutral", 0)
generate_signals_weak_first(b) ==
    LET strength(momentum) == Min(90, 50 + b.volume_ratio + 10 * momentum + b.volatility)
        Signal(signal, s) == [signal |-> signal, strength |-> s, price |-> b.current_close]
    IN  IF /\ b.current_close > b.highest_high
           /\ b.previous_close <= b.highest_high
           /\ b.volume_ratio > volume_threshold
           /\ b.trend_up
        THEN Signal("buy", strength(IF b.roc > 0 THEN b.roc ELSE 0))
        ELSE IF /\ b.current_close < b.lowest_low
                /\ b.previous_close >= b.lowest_low
                /\ b.volume_ratio > volume_threshold
                /\ ~b.trend_up
        THEN Signal("sell", strength(IF b.roc < 0 THEN -b.roc ELSE 0))
        ELSE IF /\ 2 * b.current_close > 2 * b.highest_high - b.atr
                /\ b.current_close < b.highest_high
        THEN Signal("buy_weak", 30)
        ELSE IF /\ 2 * b.current_close < 2 * b.lowest_low + b.atr
                /\ b.current_close > b.lowest_low
        THEN Signal("sell_weak", 30)
        ELSE IF b.current_close < b.exit_low /\ b.previous_close >= b.exit_low
        THEN Signal("exit_long", 70)
        ELSE IF b.current_close > b.exit_high /\ b.previous_close <= b.exit_high
        THEN Signal("exit_short", 70)
        ELSE Signal("neutral", 0)
generate_signals(b) ==
    LET strength(momentum) == Min(90, 50 + b.volume_ratio + 10 * momentum + b.volatility)
        Signal(signal, s) == [signal |-> signal, strength |-> s, price |-> b.current_close]
    IN  IF /\ b.current_close > b.highest_high
           /\ b.previous_close <= b.highest_high
           /\ b.volume_ratio > volume_threshold
           /\ b.trend_up
        THEN Signal("buy", strength(IF b.roc > 0 THEN b.roc ELSE 0))
        ELSE IF /\ b.current_close < b.lowest_low
                /\ b.previous_close >= b.lowest_low
                /\ b.volume_ratio > volume_threshold
                /\ ~b.trend_up
        THEN Signal("sell", strength(IF b.roc < 0 THEN -b.roc ELSE 0))
        ELSE IF b.current_close < b.exit_low /\ b.previous_close >= b.exit_low
        THEN Signal("exit_long", 70)
        ELSE IF b.current_close > b.exit_high /\ b.previous_close <= b.exit_high
        THEN Signal("exit_short", 70)
        ELSE IF /\ 2 * b.current_close > 2 * b.highest_high - b.atr
                /\ b.current_close < b.highest_high
        THEN Signal("buy_weak", 30)
        ELSE IF /\ 2 * b.current_close < 2 * b.lowest_low + b.atr
                /\ b.current_close > b.lowest_low
        THEN Signal("sell_weak", 30)
        ELSE Signal("neutral", 0)

\* The inputs of generate_signals(): two closes (df has at least the 30 rows
\* analyze() requires, so there is a previous close) and indicators as
\* calculate_indicators() (lines 73-110) can produce them: the exit channel
\* of the last 10 bars lies within the channel of the last 20.
Bars ==
    { b \in [current_close : 0..MaxPrice, previous_close : 0..MaxPrice,
             highest_high : 0..MaxPrice, lowest_low : 0..MaxPrice,
             exit_high : 0..MaxPrice, exit_low : 0..MaxPrice,
             atr : {0, MaxPrice - 1}, volume_ratio : {volume_threshold, volume_threshold + 5},
             trend_up : BOOLEAN, roc : {-1, 1}, volatility : {0, 30}] :
        /\ b.lowest_low <= b.exit_low
        /\ b.exit_low <= b.exit_high
        /\ b.exit_high <= b.highest_high }

\* A df window with a timestamp column, as far as calculate_indicators() and
\* generate_signals() read it: the newest bar, the close before it, the
\* extremes of the 19 and of the 9 bars before the newest (the bar before it
\* is among them), and the values of the indicators that do not depend on
\* the channel. Every bar has low <= close <= high.
Windows ==
    { w \in [high : 0..MaxPrice, low : 0..MaxPrice, close : 0..MaxPrice,
             previous_close : 0..MaxPrice,
             earlier_high20 : 0..MaxPrice, earlier_low20 : 0..MaxPrice,
             earlier_high10 : 0..MaxPrice, earlier_low10 : 0..MaxPrice,
             atr : {0, MaxPrice - 1}, volume_ratio : {volume_threshold, volume_threshold + 5},
             trend_up : BOOLEAN, roc : {-1, 1}, volatility : {0}] :
        /\ w.low <= w.close
        /\ w.close <= w.high
        /\ w.earlier_low20 <= w.earlier_low10
        /\ w.earlier_low10 <= w.previous_close
        /\ w.previous_close <= w.earlier_high10
        /\ w.earlier_high10 <= w.earlier_high20 }

\* donchian_strategy.py lines 68-81 and 114-128, calculate_indicators: the
\* rolling extremes of the last period and exit_period rows, the newest row
\* included, read at iloc[-1] of the ascending df; with the closes that
\* generate_signals() reads at iloc[0] and iloc[1] of the descending df
\* (lines 153-158).
calculate_indicators_before(w) ==
    [current_close |-> w.close, previous_close |-> w.previous_close,
     highest_high |-> w.earlier_high20, lowest_low |-> w.earlier_low20,
     exit_high |-> w.earlier_high10, exit_low |-> w.earlier_low10,
     atr |-> w.atr, volume_ratio |-> w.volume_ratio, trend_up |-> w.trend_up,
     roc |-> w.roc, volatility |-> w.volatility]
calculate_indicators(w) ==
    LET max(a, b) == IF a > b THEN a ELSE b
    IN  [current_close |-> w.close, previous_close |-> w.previous_close,
         highest_high |-> max(w.high, w.earlier_high20),
         lowest_low |-> Min(w.low, w.earlier_low20),
         exit_high |-> max(w.high, w.earlier_high10),
         exit_low |-> Min(w.low, w.earlier_low10),
         atr |-> w.atr, volume_ratio |-> w.volume_ratio, trend_up |-> w.trend_up,
         roc |-> w.roc, volatility |-> w.volatility]

\* calculate_indicators(df) is called on a window and returns (analyze(),
\* base_strategy.py line 112).
CalculateIndicators ==
    /\ window = EmptyDict
    /\ \E w \in Windows :
        /\ window' = w
        /\ bar' = calculate_indicators(w)
    /\ UNCHANGED <<strategyClass, cache, analysis, observed, cleared, confirm, generated, sizing>>
    /\ UNCHANGED <<socket, retrying>>

\* generate_signals(df, indicators) is called and returns.
GenerateSignals ==
    /\ bar # EmptyDict
    /\ generated = Pending
    /\ generated' = generate_signals(bar)
    /\ UNCHANGED <<strategyClass, cache, analysis, observed, cleared, confirm, bar, window, sizing>>
    /\ UNCHANGED <<socket, retrying>>

\* donchian_strategy.py lines 273-337, DonchianStrategy.calculate_position_size.
\* price and stop_loss are in tenths, risk_amount and account_size in whole
\* units, max_risk_percent in percent; account_size is <<>> for None.
\* The returned position_size is in thousandths.

\* Lines 310-317: the number of decimals the size is rounded to.
ndigits(price) ==
    IF price < 10 THEN 3 ELSE IF price < 100 THEN 2 ELSE IF price < 10000 THEN 1 ELSE 0

\* Python's round() of the quotient n / d (d > 0): to the nearest integer; on
\* an exact tie the float that stands for the quotient may lie on either side
\* of it, so both neighbours are possible.
round(n, d) ==
    LET q == n \div d
        r == n - q * d
    IN  IF 2 * r < d THEN {q} ELSE IF 2 * r > d THEN {q + 1} ELSE {q, q + 1}

\* Lines 299-307: what may be lost on the trade, in hundredths: risk_amount,
\* or max_risk_amount when an account size is given and the size for
\* risk_amount is above max_position_size.
risk_budget_uncapped(o) == 100 * o.risk_amount
risk_budget(o) ==
    IF /\ o.account_size # <<>>
       /\ 100 * o.risk_amount > o.account_size[1] * o.max_risk_percent
    THEN o.account_size[1] * o.max_risk_percent
    ELSE 100 * o.risk_amount

\* Lines 290-337: the results the call can return.
calculate_position_size_unguarded(o) ==
    LET risk_per_unit == IF o.price >= o.stop_loss THEN o.price - o.stop_loss
                         ELSE o.stop_loss - o.price
        unit == 10 ^ (3 - ndigits(o.price))
    IN  IF risk_per_unit = 0
        THEN {[raised |-> "ZeroDivisionError"]}
        ELSE { IF r <= 0
               THEN [position_size |-> 0, error |-> "Berechnete Positionsgroesse ist zu klein"]
               ELSE [position_size |-> r * unit,
                     risk_per_unit |-> risk_per_unit,
                     actual_risk_amount |-> r * unit * risk_per_unit,
                     risk_percent |-> IF o.account_size # <<>> /\ o.account_size[1] # 0
                                      THEN <<r * unit * risk_per_unit, 100 * o.account_size[1]>>
                                      ELSE <<>>,
                     entry_price |-> o.price,
                     stop_loss |-> o.stop_loss] :
               r \in round(risk_budget(o) * 10 ^ ndigits(o.price), 10 * risk_per_unit) }
calculate_position_size(o) ==
    LET risk_per_unit == IF o.price >= o.stop_loss THEN o.price - o.stop_loss
                         ELSE o.stop_loss - o.price
        unit == 10 ^ (3 - ndigits(o.price))
    IN  IF risk_per_unit <= 0
        THEN {[position_size |-> 0, error |-> "Stop-Loss ist zu nah am Eintrittspreis"]}
        ELSE { IF r <= 0
               THEN [position_size |-> 0, error |-> "Berechnete Positionsgroesse ist zu klein"]
               ELSE [position_size |-> r * unit,
                     risk_per_unit |-> risk_per_unit,
                     actual_risk_amount |-> r * unit * risk_per_unit,
                     risk_percent |-> IF o.account_size # <<>> /\ o.account_size[1] # 0
                                      THEN <<r * unit * risk_per_unit, 100 * o.account_size[1]>>
                                      ELSE <<>>,
                     entry_price |-> o.price,
                     stop_loss |-> o.stop_loss] :
               r \in round(risk_budget(o) * 10 ^ ndigits(o.price), 10 * risk_per_unit) }

\* The arguments of calculate_position_size(): prices 0.5, 5, 100 and 1000
\* (one for each rounding of lines 310-317), stops at, below and above the
\* price, risk amounts around zero and the 500 of a usual trade, and no
\* account, an empty one and two funded ones.
Orders ==
    { [price |-> p, stop_loss |-> p - dist, risk_amount |-> risk,
       account_size |-> account, max_risk_percent |-> percent] :
        p \in {5, 50, 1000, 10000}, dist \in {-3, 0, 3, 50},
        risk \in (-1..MaxRisk) \cup {500},
        account \in {<<>>, <<0>>, <<25>>, <<1000>>}, percent \in {1, 2} }

\* calculate_position_size(price, stop_loss, risk_amount, account_size,
\* max_risk_percent) is called and returns.
CalculatePositionSize ==
    /\ \E o \in Orders :
        /\ order' = o
        /\ sized' \in calculate_position_size(o)
    /\ UNCHANGED <<strategyClass, cache, analysis, observed, cleared, confirm, rules>>
    /\ UNCHANGED <<socket, retrying>>

\* Line 388: the ladder of check_multi_timeframe_confirmation()
intervals == <<"15", "60", "240", "D">>
\* Lines 391-395: check_intervals for base_interval
CheckIntervalsFromBase(base) ==
    IF \E i \in 1..Len(intervals) : intervals[i] = base
    THEN SubSeq(intervals, CHOOSE i \in 1..Len(intervals) : intervals[i] = base, Len(intervals))
    ELSE SubSeq(intervals, 2, Len(intervals))
CheckIntervals(base) ==
    IF \E i \in 1..Len(intervals) : intervals[i] = base
    THEN SubSeq(intervals, (CHOOSE i \in 1..Len(intervals) : intervals[i] = base) + 1,
                Len(intervals))
    ELSE SubSeq(intervals, 2, Len(intervals))

\* Lines 386-403: check_multi_timeframe_confirmation(symbol, base, kind) up to
\* the loop; without intervals to check it returns at line 398.
ConfirmCall(bases, kinds) ==
    /\ apc \in {"idle", "done"}
    /\ cpc \in {"idle", "done"}
    /\ \E base \in bases, kind \in kinds :
        /\ base_interval' = base
        /\ signal_type' = kind
        /\ check_intervals' = CheckIntervals(base)
        /\ to_check' = CheckIntervals(base)
        /\ IF CheckIntervals(base) = <<>>
           THEN /\ confirmation' = [confirmed |-> TRUE, confirmations |-> 0, details |-> <<>>]
                /\ cpc' = "done"
           ELSE /\ confirmation' = Pending
                /\ cpc' = "c_loop"
    /\ confirmations' = 0
    /\ details' = <<>>
    /\ invoked' = <<>>
    /\ UNCHANGED <<strategyClass, cache, apc, df, symbol, returned, calls>>
    /\ UNCHANGED <<observed, cleared, rules, sizing>>
    /\ UNCHANGED <<socket, retrying>>

\* Line 407: self.analyze(symbol, interval), which binds the symbol string to
\* the parameter df and the interval to the parameter symbol.
ConfirmAnalyze ==
    /\ cpc = "c_loop"
    /\ cpc' = "c_wait"
    /\ df' = StrArg
    /\ symbol' = Head(to_check)
    /\ apc' = "a_empty"
    /\ returned' = Pending
    /\ invoked' = Append(invoked, "analyze")
    /\ UNCHANGED <<strategyClass, cache, calls, observed, cleared, rules, sizing>>
    /\ UNCHANGED <<base_interval, signal_type, check_intervals, to_check, confirmations>>
    /\ UNCHANGED <<details, confirmation>>
    /\ UNCHANGED <<socket, retrying>>

\* Lines 408-446, after analyze() returned: result.get on None raises and the
\* handler of line 444 returns the error dict; otherwise the interval is
\* counted and, after the last one, the result of lines 427-442 is returned
\* (confidence as the pair of confirmations and len(check_intervals)).
ConfirmNext ==
    /\ cpc = "c_wait"
    /\ apc = "done"
    /\ IF returned = None
       THEN /\ confirmation' = [confirmed |-> FALSE, error |-> TRUE]
            /\ cpc' = "done"
            /\ UNCHANGED <<to_check, confirmations, details>>
       ELSE LET interval_signal == Get(returned, "signal", "neutral")
                is_confirmed == interval_signal = signal_type \/ interval_signal = "neutral"
                last == Len(to_check) = 1
            IN  /\ confirmations' = confirmations + (IF is_confirmed THEN 1 ELSE 0)
                /\ details' = Append(details, [interval |-> Head(to_check),
                                               signal |-> interval_signal,
                                               confirmed |-> is_confirmed])
                /\ to_check' = Tail(to_check)
                /\ cpc' = IF last THEN "done" ELSE "c_loop"
                /\ confirmation' =
                     IF last
                     THEN [confirmed |-> 2 * confirmations' >= Len(check_intervals),
                           confidence |-> <<confirmations', Len(check_intervals)>>,
                           confirmations |-> confirmations',
                           total_timeframes |-> Len(check_intervals),
                           details |-> details']
                     ELSE confirmation
    /\ UNCHANGED <<strategyClass, cache, analysis, observed, cleared, rules, sizing>>
    /\ UNCHANGED <<base_interval, signal_type, check_intervals>>
    /\ UNCHANGED <<socket, retrying>>

(*------------------------ decorators.py, retry --------------------------*)
\* Lines 70-77: should_retry(e)
should_retry(allowed, e) ==
    IF allowed = <<>> THEN TRUE
    ELSE \E exc_type \in DOMAIN allowed[1] : exc_type = e /\ allowed[1][exc_type]

\* No decorated function has been called.
NoRetry ==
    /\ rpc = "idle"
    /\ retry_args = EmptyDict
    /\ attempt = 0
    /\ last_exception = None
    /\ tried = <<>>
    /\ slept = <<>>
    /\ retried = Pending

\* Lines 66-79 and 107-109: a function decorated with retry(max_attempts,
\* delay, exponential_backoff, allowed_exceptions) is called; when
\* range(1, max_attempts + 1) is empty the loop body never runs and line 109
\* executes "raise last_exception" with None, which raises TypeError.
\* allowed_exceptions is <<>> for None, else the dict.
RetryCall ==
    /\ rpc \in {"idle", "done"}
    /\ \E n \in 0..MaxTries, backoff \in BOOLEAN,
          allowed \in {<<>>, <<[e \in {"ConnectionError"} |-> TRUE]>>,
                       <<[e \in {"ConnectionError", "ValueError"} |-> e = "ConnectionError"]>>} :
        /\ retry_args' = [max_attempts |-> n, delay |-> 2, exponential_backoff |-> backoff,
                          allowed_exceptions |-> allowed]
        /\ IF n >= 1
           THEN /\ rpc' = "r_try"
                /\ retried' = Pending
           ELSE /\ rpc' = "done"
                /\ retried' = [raised |-> [type |-> "TypeError", attempt |-> 0]]
    /\ attempt' = 1
    /\ last_exception' = None
    /\ tried' = <<>>
    /\ slept' = <<>>
    /\ UNCHANGED <<socket, strategy>>

\* Lines 79-93: one pass of the loop up to the sleep: func is called and
\* returns, or raises; KeyboardInterrupt is not a subclass of Exception and
\* is not caught.
RetryAttempt ==
    /\ rpc = "r_try"
    /\ \/ /\ tried' = Append(tried, "ok")
          /\ retried' = [returned |-> attempt]
          /\ rpc' = "done"
          /\ UNCHANGED last_exception
       \/ \E e \in {"ConnectionError", "ValueError", "KeyboardInterrupt"} :
            LET raised == [type |-> e, attempt |-> attempt]
            IN  /\ tried' = Append(tried, e)
                /\ IF e = "KeyboardInterrupt"
                   THEN /\ retried' = [raised |-> raised]
                        /\ rpc' = "done"
                        /\ UNCHANGED last_exception
                   ELSE /\ last_exception' = raised
                        /\ IF \/ ~should_retry(retry_args.allowed_exceptions, e)
                              \/ attempt = retry_args.max_attempts
                           THEN /\ retried' = [raised |-> raised]
                                /\ rpc' = "done"
                           ELSE /\ rpc' = "r_sleep"
                                /\ UNCHANGED retried
    /\ UNCHANGED <<retry_args, attempt, slept>>
    /\ UNCHANGED <<socket, strategy>>

\* Lines 95-105: current_delay and time.sleep(current_delay), then the next
\* pass of the loop.
RetrySleep ==
    /\ rpc = "r_sleep"
    /\ slept' = Append(slept, IF retry_args.exponential_backoff
                              THEN retry_args.delay * 2 ^ (attempt - 1)
                              ELSE retry_args.delay)
    /\ attempt' = attempt + 1
    /\ rpc' = "r_try"
    /\ UNCHANGED <<retry_args, last_exception, tried, retried>>
    /\ UNCHANGED <<socket, strategy>>

(*------------------------------- Init -----------------------------------*)
\* The fields as __init__ sets them (lines 16-28); the constructing thread is
\* about to call connect() (line 48), or has returned when the import failed.
InitSocket ==
    /\ WebSocket \in BOOLEAN
    /\ ws = NoWs
    /\ orphans = {}
    /\ callbacks = NoCallbacks
    /\ topics = {}
    /\ is_running = TRUE
    /\ monitor_thread = 0
    /\ pingDue = TRUE
    /\ pc = [th \in Threads |->
               IF th = Ctor THEN (IF WebSocket THEN "c_begin" ELSE "idle")
               ELSE IF th \in Callers THEN "idle" ELSE "dead"]
    /\ current_topics = [th \in Threads |-> {}]
    /\ todo = [th \in Threads |-> {}]
    /\ ret = [th \in Threads |-> NoRet]
    /\ args = [c \in Callers |-> <<>>]
    /\ cbArg = [c \in Callers |-> NoCb]
    /\ success = [c \in Callers |-> TRUE]
    /\ reconnect_attempts = [m \in MonIds |-> 0]
    /\ sleepDur = [m \in MonIds |-> 0]
    /\ constructed = ~WebSocket
    /\ closed = FALSE
    /\ failed = [th \in Threads |-> {}]
    /\ raced = [th \in Threads |-> {}]
    /\ failLog = [m \in MonIds |-> <<>>]
    /\ recovered = [m \in MonIds |-> FALSE]
    /\ sendDue = TRUE
    /\ pinged = [m \in MonIds |-> "none"]
    /\ stalled = {}
    /\ late = FALSE
    /\ inbound = NoInbound

Init == InitSocket /\ NoAnalysis /\ NoRetry

(*----------------------------- connect() --------------------------------*)
\* Where connect() returns to: a caller is idle again, the monitor goes on at
\* line 184.
ReturnPc(th) == IF th \in Callers THEN "idle" ELSE "m_after"

\* Lines 58-75: the WebSocket class check, the snapshot of self.topics and the
\* exit of the session in self.ws.
ConnectBegin(th) ==
    /\ pc[th] = "c_begin"
    /\ IF ~WebSocket
       THEN /\ ret' = [ret EXCEPT ![th] = Result("connect", FALSE)]
            /\ pc' = [pc EXCEPT ![th] = ReturnPc(th)]
            /\ constructed' = (constructed \/ th = Ctor)
            /\ UNCHANGED <<ws, current_topics>>
       ELSE /\ current_topics' = [current_topics EXCEPT ![th] = topics]
            /\ ws' = IF ws.obj THEN Exited(ws) ELSE ws
            /\ pc' = [pc EXCEPT ![th] = "c_construct"]
            /\ UNCHANGED <<ret, constructed>>
    /\ UNCHANGED <<WebSocket, orphans, callbacks, topics, is_running, monitor_thread, pingDue>>
    /\ UNCHANGED <<todo, args, cbArg, success, monloc, hist>>
    /\ UNCHANGED <<heartbeat, auth, inbound, strategy, retrying>>

\* self.ws = self.WebSocket(...): the session it replaces is lost, open or not.
Assigned(connected) == [obj |-> TRUE, connected |-> connected, subs |-> {}]
OrphansAfterAssign == IF SockConnected THEN orphans \cup {ws.subs} ELSE orphans

\* Lines 90-103 and 136-154: the constructor returns a session ("ok"), raises
\* TypeError and the second constructor call returns a session ("fallback",
\* line 151 returns True), or raises for good ("raise", lines 154/160).
ConnectConstruct(th) ==
    /\ pc[th] = "c_construct"
    /\ \E outcome \in {"ok", "fallback", "raise"}, connected \in BOOLEAN :
        CASE outcome = "ok" ->
               /\ ws' = Assigned(connected)
               /\ orphans' = OrphansAfterAssign
               /\ late' = (th \in stalled)
               /\ pc' = [pc EXCEPT ![th] = "c_check"]
               /\ UNCHANGED <<ret, constructed>>
          [] outcome = "fallback" ->
               /\ ws' = Assigned(connected)
               /\ orphans' = OrphansAfterAssign
               /\ late' = (th \in stalled)
               /\ ret' = [ret EXCEPT ![th] = Result("connect", TRUE)]
               /\ pc' = [pc EXCEPT ![th] = ReturnPc(th)]
               /\ constructed' = (constructed \/ th = Ctor)
          [] outcome = "raise" ->
               /\ connected = FALSE
               /\ ret' = [ret EXCEPT ![th] = Result("connect", FALSE)]
               /\ pc' = [pc EXCEPT ![th] = ReturnPc(th)]
               /\ constructed' = (constructed \/ th = Ctor)
               /\ UNCHANGED <<ws, orphans, late>>
    /\ stalled' = stalled \ {th}
    /\ UNCHANGED <<WebSocket, callbacks, topics, is_running, monitor_thread, pingDue>>
    /\ UNCHANGED <<current_topics, todo, args, cbArg, success, monloc, hist>>
    /\ UNCHANGED <<heartbeat, inbound, strategy, retrying>>

\* Lines 105-122: after the 2 s wait, the liveness test of self.ws.
ConnectCheck(th) ==
    /\ pc[th] = "c_check"
    /\ IF ~SockConnected
       THEN /\ ret' = [ret EXCEPT ![th] = Result("connect", FALSE)]
            /\ pc' = [pc EXCEPT ![th] = ReturnPc(th)]
            /\ constructed' = (constructed \/ th = Ctor)
            /\ UNCHANGED todo
       ELSE /\ todo' = [todo EXCEPT ![th] = current_topics[th]]
            /\ pc' = [pc EXCEPT ![th] =
                        IF current_topics[th] = {} THEN "c_monchk" ELSE "c_resub"]
            /\ UNCHANGED <<ret, constructed>>
    /\ UNCHANGED <<shared, current_topics, args, cbArg, success, monloc, hist>>
    /\ UNCHANGED <<heartbeat, auth, inbound, strategy, retrying>>

\* Lines 123-124: one round of the resubscribe loop, self._subscribe_topic(topic);
\* the value it returns is dropped.
ConnectResub(th) ==
    /\ pc[th] = "c_resub"
    /\ \E topic \in todo[th], transportOk \in BOOLEAN :
        /\ ws' = SubscribeTopicWs(topic, transportOk)
        /\ callbacks' = SubscribeTopicCallbacks(topic, NoCb)
        /\ failed' = IF SubscribeTopicOk(topic, transportOk) THEN failed
                     ELSE [failed EXCEPT ![th] = @ \cup {topic}]
        /\ todo' = [todo EXCEPT ![th] = @ \ {topic}]
        /\ pc' = [pc EXCEPT ![th] = IF todo[th] = {topic} THEN "c_monchk" ELSE "c_resub"]
    /\ UNCHANGED <<WebSocket, orphans, topics, is_running, monitor_thread, pingDue>>
    /\ UNCHANGED <<current_topics, ret, args, cbArg, success, monloc, constructed, closed, raced>>
    /\ UNCHANGED <<heartbeat, auth, inbound, strategy, retrying>>

\* Line 127: not self.monitor_thread or not self.monitor_thread.is_alive()
ConnectMonChk(th) ==
    /\ pc[th] = "c_monchk"
    /\ IF monitor_thread = 0 \/ ~IsAlive(monitor_thread)
       THEN /\ pc' = [pc EXCEPT ![th] = "c_spawn"]
            /\ UNCHANGED <<ret, constructed>>
       ELSE /\ ret' = [ret EXCEPT ![th] = Result("connect", TRUE)]
            /\ pc' = [pc EXCEPT ![th] = ReturnPc(th)]
            /\ constructed' = (constructed \/ th = Ctor)
    /\ UNCHANGED <<shared, current_topics, todo, args, cbArg, success, monloc, hist>>
    /\ UNCHANGED <<heartbeat, auth, inbound, strategy, retrying>>

\* Lines 128-134: is_running = True, a new monitor thread is created and
\* started, connect() returns True.  A thread object that has ended is reused
\* for the new thread.
ConnectSpawn(th) ==
    /\ pc[th] = "c_spawn"
    /\ \E m \in MonIds :
        /\ ~IsAlive(m)
        /\ \A k \in MonIds : ~IsAlive(k) => m <= k
        /\ is_running' = TRUE
        /\ monitor_thread' = m
        /\ pc' = [pc EXCEPT ![th] = ReturnPc(th), ![m] = "m_loop"]
        /\ reconnect_attempts' = [reconnect_attempts EXCEPT ![m] = 0]
        /\ failLog' = [failLog EXCEPT ![m] = <<>>]
        /\ recovered' = [recovered EXCEPT ![m] = FALSE]
        /\ sleepDur' = [sleepDur EXCEPT ![m] = 0]
        /\ current_topics' = [current_topics EXCEPT ![m] = {}]
        /\ todo' = [todo EXCEPT ![m] = {}]
        /\ ret' = [ret EXCEPT ![th] = Result("connect", TRUE), ![m] = NoRet]
        /\ failed' = [failed EXCEPT ![m] = {}]
        /\ raced' = [raced EXCEPT ![m] = {}]
    /\ constructed' = (constructed \/ th = Ctor)
    /\ UNCHANGED <<WebSocket, ws, orphans, callbacks, topics, pingDue>>
    /\ UNCHANGED <<args, cbArg, success, closed>>
    /\ UNCHANGED <<heartbeat, auth, inbound, strategy, retrying>>

Connect(th) ==
    \/ ConnectBegin(th)
    \/ ConnectConstruct(th)
    \/ ConnectCheck(th)
    \/ ConnectResub(th)
    \/ ConnectMonChk(th)
    \/ ConnectSpawn(th)

(*------------------- subscribe(), unsubscribe(), close() ----------------*)
\* The arguments callers pass: lists of topics, and a callback or none.
TopicLists == {<<t>> : t \in Topics}
CbArgs == Cbs \cup {NoCb}
\* The arguments passed while the monitor threads run next to the caller.
FewTopicLists == {<< <<"position">> >>, << <<"ticker">> >>}
OneTopicList == {<< <<"position">> >>}

\* A caller calls connect() on the constructed object.
CallConnect(c) ==
    /\ constructed
    /\ pc[c] = "idle"
    /\ pc' = [pc EXCEPT ![c] = "c_begin"]
    /\ ret' = [ret EXCEPT ![c] = NoRet]
    /\ current_topics' = [current_topics EXCEPT ![c] = {}]
    /\ failed' = [failed EXCEPT ![c] = {}]
    /\ raced' = [raced EXCEPT ![c] = {}]
    /\ closed' = FALSE
    /\ UNCHANGED <<shared, todo, args, cbArg, success, monloc, constructed>>
    /\ UNCHANGED <<heartbeat, auth, inbound, strategy, retrying>>

\* Lines 235-239: subscribe(topics, callback) up to the loop, for the lists
\* and callbacks given.
CallSubscribeUnchecked(c, lists, cbs) ==
    /\ constructed
    /\ pc[c] = "idle"
    /\ \E list \in lists, cb \in cbs :
        /\ pc' = [pc EXCEPT ![c] = "s_loop"]
        /\ args' = [args EXCEPT ![c] = list]
        /\ cbArg' = [cbArg EXCEPT ![c] = cb]
        /\ success' = [success EXCEPT ![c] = TRUE]
        /\ ret' = [ret EXCEPT ![c] = NoRet]
    /\ current_topics' = [current_topics EXCEPT ![c] = {}]
    /\ failed' = [failed EXCEPT ![c] = {}]
    /\ raced' = [raced EXCEPT ![c] = {}]
    /\ UNCHANGED <<shared, todo, monloc, constructed, closed>>
    /\ UNCHANGED <<heartbeat, auth, inbound, strategy, retrying>>
CallSubscribe(c, lists, cbs) ==
    /\ constructed
    /\ pc[c] = "idle"
    /\ \E list \in lists, cb \in cbs :
        IF ~ws.obj
        THEN /\ ret' = [ret EXCEPT ![c] = Result("subscribe", FALSE)]
             /\ UNCHANGED <<pc, args, cbArg, success>>
        ELSE /\ pc' = [pc EXCEPT ![c] = "s_loop"]
             /\ args' = [args EXCEPT ![c] = list]
             /\ cbArg' = [cbArg EXCEPT ![c] = cb]
             /\ success' = [success EXCEPT ![c] = TRUE]
             /\ ret' = [ret EXCEPT ![c] = NoRet]
    /\ current_topics' = [current_topics EXCEPT ![c] = {}]
    /\ failed' = [failed EXCEPT ![c] = {}]
    /\ raced' = [raced EXCEPT ![c] = {}]
    /\ UNCHANGED <<shared, todo, monloc, constructed, closed>>
    /\ UNCHANGED <<heartbeat, auth, inbound, strategy, retrying>>

\* Lines 240-247: one round of the loop of subscribe(), and the return after
\* the last one; transports says whether the stream call of the session can
\* return (TRUE) and whether it can raise (FALSE).
SubscribeRound(c, transports) ==
    /\ pc[c] = "s_loop"
    /\ \E transportOk \in transports :
        LET topic == Head(args[c])
            ok == SubscribeTopicOk(topic, transportOk)
            last == Len(args[c]) = 1
        IN  /\ ws' = SubscribeTopicWs(topic, transportOk)
            /\ callbacks' = SubscribeTopicCallbacks(topic, cbArg[c])
            /\ topics' = IF ok THEN topics \cup {topic} ELSE topics
            /\ success' = [success EXCEPT ![c] = @ /\ ok]
            /\ args' = [args EXCEPT ![c] = Tail(@)]
            /\ raced' = [th \in Threads |->
                           IF ok /\ AfterSnapshot(th) THEN raced[th] \cup {topic}
                           ELSE raced[th]]
            /\ pc' = [pc EXCEPT ![c] = IF last THEN "idle" ELSE "s_loop"]
            /\ ret' = [ret EXCEPT ![c] =
                         IF last THEN Result("subscribe", success[c] /\ ok) ELSE NoRet]
            /\ cbArg' = [cbArg EXCEPT ![c] = IF last THEN NoCb ELSE @]
    /\ UNCHANGED <<WebSocket, orphans, is_running, monitor_thread, pingDue>>
    /\ UNCHANGED <<current_topics, todo, monloc, constructed, closed, failed>>
    /\ UNCHANGED <<heartbeat, auth, inbound, strategy, retrying>>

SubscribeStep(c) == SubscribeRound(c, BOOLEAN)

\* Lines 311-316: unsubscribe(topics) up to the loop.
CallUnsubscribe(c, lists) ==
    /\ constructed
    /\ pc[c] = "idle"
    /\ \E list \in lists :
        IF ~ws.obj
        THEN /\ ret' = [ret EXCEPT ![c] = Result("unsubscribe", FALSE)]
             /\ UNCHANGED <<pc, args>>
        ELSE /\ pc' = [pc EXCEPT ![c] = "u_loop"]
             /\ args' = [args EXCEPT ![c] = list]
             /\ ret' = [ret EXCEPT ![c] = NoRet]
    /\ current_topics' = [current_topics EXCEPT ![c] = {}]
    /\ failed' = [failed EXCEPT ![c] = {}]
    /\ raced' = [raced EXCEPT ![c] = {}]
    /\ UNCHANGED <<shared, todo, cbArg, success, monloc, constructed, closed>>
    /\ UNCHANGED <<heartbeat, auth, inbound, strategy, retrying>>

\* Lines 316-330: one round of the loop of unsubscribe(); it returns True.
UnsubscribeStepStrict(c) ==
    /\ pc[c] = "u_loop"
    /\ LET topic == Head(args[c])
           last == Len(args[c]) = 1
       IN  /\ topics' = topics \ {topic}
           /\ callbacks' = Deleted(callbacks, topic)
           /\ args' = [args EXCEPT ![c] = Tail(@)]
           /\ pc' = [pc EXCEPT ![c] = IF last THEN "idle" ELSE "u_loop"]
           /\ ret' = [ret EXCEPT ![c] = IF last THEN Result("unsubscribe", topic \in topics) ELSE NoRet]
    /\ UNCHANGED <<WebSocket, ws, orphans, is_running, monitor_thread, pingDue>>
    /\ UNCHANGED <<current_topics, todo, cbArg, success, monloc, constructed, hist>>
    /\ UNCHANGED <<heartbeat, auth, inbound, strategy, retrying>>
UnsubscribeStep(c) ==
    /\ pc[c] = "u_loop"
    /\ LET topic == Head(args[c])
           last == Len(args[c]) = 1
       IN  /\ topics' = topics \ {topic}
           /\ callbacks' = Deleted(callbacks, topic)
           /\ args' = [args EXCEPT ![c] = Tail(@)]
           /\ pc' = [pc EXCEPT ![c] = IF last THEN "idle" ELSE "u_loop"]
           /\ ret' = [ret EXCEPT ![c] = IF last THEN Result("unsubscribe", TRUE) ELSE NoRet]
    /\ UNCHANGED <<WebSocket, ws, orphans, is_running, monitor_thread, pingDue>>
    /\ UNCHANGED <<current_topics, todo, cbArg, success, monloc, constructed, hist>>
    /\ UNCHANGED <<heartbeat, auth, inbound, strategy, retrying>>

\* Line 341: close() clears the running flag.
CallClose(c) ==
    /\ constructed
    /\ pc[c] = "idle"
    /\ is_running' = FALSE
    /\ pc' = [pc EXCEPT ![c] = "x_tear"]
    /\ ret' = [ret EXCEPT ![c] = NoRet]
    /\ current_topics' = [current_topics EXCEPT ![c] = {}]
    /\ failed' = [failed EXCEPT ![c] = {}]
    /\ raced' = [raced EXCEPT ![c] = {}]
    /\ UNCHANGED <<WebSocket, ws, orphans, callbacks, topics, monitor_thread, pingDue>>
    /\ UNCHANGED <<todo, args, cbArg, success, monloc, constructed, closed>>
    /\ UNCHANGED <<heartbeat, auth, inbound, strategy, retrying>>

\* Lines 344-360: close() exits the session in self.ws, sets self.ws = None and
\* returns True.
CloseTear(c) ==
    /\ pc[c] = "x_tear"
    /\ ws' = NoWs
    /\ late' = FALSE
    /\ pc' = [pc EXCEPT ![c] = "idle"]
    /\ ret' = [ret EXCEPT ![c] = Result("close", TRUE)]
    /\ closed' = TRUE
    /\ UNCHANGED <<WebSocket, orphans, callbacks, topics, is_running, monitor_thread, pingDue>>
    /\ UNCHANGED <<current_topics, todo, args, cbArg, success, monloc, constructed, failed, raced>>
    /\ UNCHANGED <<heartbeat, stalled, inbound, strategy, retrying>>

(*------------------------- inbound messages -----------------------------*)
\* The messages the session hands to the handlers of lines 367-445: the stream
\* they came on and the "symbol" and "interval" of their "data", <<>> when the
\* message has none.
Streams ==
    {"position_stream", "execution_stream", "order_stream", "wallet_stream",
     "ticker_stream", "kline_stream"}
Msgs ==
    [stream : Streams,
     symbol : {<<>>} \cup {<<x>> : x \in Symbols},
     interval : {<<>>} \cup {<<x>> : x \in Intervals}]

\* dict.get(key, "unknown")
OrUnknown(x) == IF x = <<>> THEN <<"unknown">> ELSE x

\* The local topic of the handler of a stream (lines 370, 382, 394, 406, 420, 437)
HandlerTopic(msg) ==
    CASE msg.stream = "position_stream" -> <<"position">>
      [] msg.stream = "execution_stream" -> <<"execution">>
      [] msg.stream = "order_stream" -> <<"order">>
      [] msg.stream = "wallet_stream" -> <<"wallet">>
      [] msg.stream = "ticker_stream" -> <<"ticker", Dot>> \o OrUnknown(msg.symbol)
      [] msg.stream = "kline_stream" ->
            <<"kline", Dot>> \o OrUnknown(msg.interval) \o <<Dot>> \o OrUnknown(msg.symbol)

\* The stream call made for topic (lines 271-289) makes the session deliver msg:
\* the private streams carry every message of their kind, ticker_stream and
\* kline_stream those of the symbol and interval they were called with.
Carries(topic, msg) ==
    /\ StreamFor(topic) = msg.stream
    /\ msg.stream = "ticker_stream" => msg.symbol = AfterFirstDot(topic)
    /\ msg.stream = "kline_stream" =>
            msg.interval \o <<Dot>> \o msg.symbol = AfterFirstDot(topic)

\* Lines 367-445: the handler of the stream looks its topic up in
\* self.callbacks and calls what it finds; whatever the callback raises is
\* logged by the handler.
Dispatch(msg) ==
    /\ SockConnected
    /\ \E t \in ws.subs : Carries(t, msg)
    /\ inbound' =
          [msg |-> msg,
           key |-> HandlerTopic(msg),
           calls |-> IF Registered(callbacks, HandlerTopic(msg)) # NoCb
                     THEN <<Registered(callbacks, HandlerTopic(msg))>>
                     ELSE <<>>]
    /\ UNCHANGED <<shared, pc, frames, monloc, constructed, hist, heartbeat, auth, strategy, retrying>>

(*------------------------ _monitor_connection() -------------------------*)
\* Line 169: while self.is_running; the thread ends when the flag is false.
MonLoop(m) ==
    /\ pc[m] = "m_loop"
    /\ pc' = [pc EXCEPT ![m] = IF is_running THEN "m_probe" ELSE "dead"]
    /\ reconnect_attempts' = [reconnect_attempts EXCEPT ![m] = IF is_running THEN @ ELSE 0]
    /\ failLog' = [failLog EXCEPT ![m] = IF is_running THEN @ ELSE <<>>]
    /\ recovered' = [recovered EXCEPT ![m] = is_running /\ @]
    /\ UNCHANGED <<shared, frames, sleepDur, constructed, hist>>
    /\ UNCHANGED <<heartbeat, auth, inbound, strategy, retrying>>

\* The monitor calls self.connect() (line 182).
EnterConnect(m) ==
    /\ pc' = [pc EXCEPT ![m] = "c_begin"]
    /\ ret' = [ret EXCEPT ![m] = NoRet]
    /\ failed' = [failed EXCEPT ![m] = {}]
    /\ raced' = [raced EXCEPT ![m] = {}]
    /\ UNCHANGED <<sleepDur, current_topics>>

\* Line 173, the first reads of self.ws: without a session is_connected stays
\* False and the monitor reconnects.
MonProbe(m) ==
    /\ pc[m] = "m_probe"
    /\ IF ~ws.obj
       THEN EnterConnect(m)
       ELSE /\ pc' = [pc EXCEPT ![m] = "m_probe2"]
            /\ UNCHANGED <<ret, failed, raced, sleepDur, current_topics>>
    /\ UNCHANGED <<shared, todo, args, cbArg, success, reconnect_attempts, failLog, recovered>>
    /\ UNCHANGED <<constructed, closed>>
    /\ UNCHANGED <<heartbeat, auth, inbound, strategy, retrying>>

\* Lines 173-182, the last read of self.ws: self.ws.ws on None raises, the
\* handler of line 210 sleeps reconnect_interval; otherwise the socket state
\* decides between the reconnect and the heartbeat.
MonProbe2(m) ==
    /\ pc[m] = "m_probe2"
    /\ IF ~ws.obj
       THEN /\ pc' = [pc EXCEPT ![m] = "m_sleep"]
            /\ sleepDur' = [sleepDur EXCEPT ![m] = reconnect_interval]
            /\ UNCHANGED <<ret, failed, raced, current_topics>>
       ELSE IF ws.connected
       THEN /\ pc' = [pc EXCEPT ![m] = "m_ping"]
            /\ UNCHANGED <<ret, failed, raced, sleepDur, current_topics>>
       ELSE EnterConnect(m)
    /\ UNCHANGED <<shared, todo, args, cbArg, success, reconnect_attempts, failLog, recovered>>
    /\ UNCHANGED <<constructed, closed>>
    /\ UNCHANGED <<heartbeat, auth, inbound, strategy, retrying>>

\* Lines 185 and 188: reconnect_attempts after connect() returned result.
AttemptsNoReset(m, result) ==
    IF result THEN reconnect_attempts[m] ELSE Min(reconnect_attempts[m] + 1, MaxAttempts)
AttemptsAfter(m, result) ==
    IF result THEN 0 ELSE Min(reconnect_attempts[m] + 1, MaxAttempts)

\* Lines 192-197: the sleep after a failure, and whether it is reported critical.
FailureSleepLate(n) ==
    IF n > max_consecutive_failures THEN reconnect_interval * 2 ELSE reconnect_interval
FailureSleep(n) ==
    IF n >= max_consecutive_failures THEN reconnect_interval * 2 ELSE reconnect_interval
FailureCritical(n) == n >= max_consecutive_failures

\* The log of the sleeps after the failures since the last success: entry i is
\* failure i, the last entry stands for every failure from MaxAttempts on.
Logged(log, e) ==
    IF Len(log) < MaxAttempts THEN Append(log, e)
    ELSE [log EXCEPT ![MaxAttempts] = e]

\* The monitor that ends its loop at the failure that is reported critical.
MonAfterGivesUp(m, n) ==
    /\ pc[m] = "m_after"
    /\ AttemptsAfter(m, ret[m].val) <= n
    /\ reconnect_attempts' = [reconnect_attempts EXCEPT ![m] = AttemptsAfter(m, ret[m].val)]
    /\ pc' = [pc EXCEPT ![m] =
                IF ret[m].val THEN "m_ping"
                ELSE IF FailureCritical(reconnect_attempts'[m]) THEN "dead" ELSE "m_sleep"]
    /\ sleepDur' = [sleepDur EXCEPT ![m] =
                      IF ret[m].val \/ FailureCritical(reconnect_attempts'[m]) THEN @
                      ELSE FailureSleep(reconnect_attempts'[m])]
    /\ failLog' = [failLog EXCEPT ![m] = <<>>]
    /\ ret' = [ret EXCEPT ![m] = NoRet]
    /\ current_topics' = [current_topics EXCEPT ![m] = {}]
    /\ failed' = [failed EXCEPT ![m] = {}]
    /\ raced' = [raced EXCEPT ![m] = {}]
    /\ UNCHANGED <<shared, todo, args, cbArg, success, recovered, constructed, closed>>
    /\ UNCHANGED <<heartbeat, auth, inbound, strategy, retrying>>

\* Lines 184-199: the monitor after connect() returned; it is followed as long
\* as it has counted no more than n consecutive failures.
MonAfter(m, n) ==
    /\ pc[m] = "m_after"
    /\ AttemptsAfter(m, ret[m].val) <= n
    /\ reconnect_attempts' = [reconnect_attempts EXCEPT ![m] = AttemptsAfter(m, ret[m].val)]
    /\ IF ret[m].val
       THEN /\ pc' = [pc EXCEPT ![m] = "m_ping"]
            /\ failLog' = [failLog EXCEPT ![m] = <<>>]
            /\ recovered' = [recovered EXCEPT ![m] = @ \/ failLog[m] # <<>>]
            /\ UNCHANGED sleepDur
       ELSE /\ pc' = [pc EXCEPT ![m] = "m_sleep"]
            /\ UNCHANGED recovered
            /\ sleepDur' = [sleepDur EXCEPT ![m] = FailureSleep(reconnect_attempts'[m])]
            /\ failLog' = [failLog EXCEPT ![m] =
                             Logged(@, [dur |-> sleepDur'[m],
                                        critical |-> FailureCritical(reconnect_attempts'[m])])]
    /\ ret' = [ret EXCEPT ![m] = NoRet]
    /\ current_topics' = [current_topics EXCEPT ![m] = {}]
    /\ failed' = [failed EXCEPT ![m] = {}]
    /\ raced' = [raced EXCEPT ![m] = {}]
    /\ UNCHANGED <<shared, todo, args, cbArg, success, constructed, closed>>
    /\ UNCHANGED <<heartbeat, auth, inbound, strategy, retrying>>

\* What _send_ping() can do (lines 216-225): ping() returns ("sent"), raises
\* "Connection is already closed" ("closed", swallowed) or raises something
\* else ("error", a warning); with no connected socket it does nothing
\* ("skipped").  "none": line 203 found the heartbeat not due.
PingOutcomes ==
    IF ~pingDue THEN {"none"}
    ELSE IF SockConnected THEN {"sent", "closed", "error"}
    ELSE {"skipped"}

\* Lines 202-208: the heartbeat when it is due, with last_ping_time set whatever
\* _send_ping() did, then the 10 s sleep.
MonPingFatal(m) ==
    /\ pc[m] = "m_ping"
    /\ \E outcome \in PingOutcomes :
        /\ pinged' = [pinged EXCEPT ![m] = outcome]
        /\ sendDue' = (sendDue /\ outcome # "sent")
    /\ pingDue' = FALSE
    /\ pc' = [pc EXCEPT ![m] = IF pinged'[m] = "error" THEN "dead" ELSE "m_sleep"]
    /\ sleepDur' = [sleepDur EXCEPT ![m] = tick_interval]
    /\ UNCHANGED <<WebSocket, ws, orphans, callbacks, topics, is_running, monitor_thread>>
    /\ UNCHANGED <<frames, reconnect_attempts, failLog, recovered, constructed, hist>>
    /\ UNCHANGED <<auth, inbound, strategy, retrying>>
MonPing(m) ==
    /\ pc[m] = "m_ping"
    /\ \E outcome \in PingOutcomes :
        /\ pinged' = [pinged EXCEPT ![m] = outcome]
        /\ sendDue' = (sendDue /\ outcome # "sent")
    /\ pingDue' = FALSE
    /\ pc' = [pc EXCEPT ![m] = "m_sleep"]
    /\ sleepDur' = [sleepDur EXCEPT ![m] = tick_interval]
    /\ UNCHANGED <<WebSocket, ws, orphans, callbacks, topics, is_running, monitor_thread>>
    /\ UNCHANGED <<frames, reconnect_attempts, failLog, recovered, constructed, hist>>
    /\ UNCHANGED <<auth, inbound, strategy, retrying>>

\* The end of a time.sleep of the loop (lines 195, 197, 208, 212): the loop
\* goes back to its head at line 169.
MonWake(m) ==
    /\ pc[m] = "m_sleep"
    /\ pc' = [pc EXCEPT ![m] = "m_loop"]
    /\ sleepDur' = [sleepDur EXCEPT ![m] = 0]
    /\ pinged' = [pinged EXCEPT ![m] = "none"]
    /\ UNCHANGED <<shared, frames, reconnect_attempts, failLog, recovered, constructed, hist>>
    /\ UNCHANGED <<sendDue, auth, inbound, strategy, retrying>>

(*----------------------------- environment ------------------------------*)
\* The socket of the session in self.ws is lost.
Drop ==
    /\ SockConnected
    /\ ws' = [ws EXCEPT !.connected = FALSE]
    /\ UNCHANGED <<WebSocket, orphans, callbacks, topics, is_running, monitor_thread, pingDue>>
    /\ UNCHANGED <<pc, frames, monloc, constructed, hist>>
    /\ UNCHANGED <<heartbeat, auth, inbound, strategy, retrying>>

\* The socket of a session nobody refers to any more is lost.
DropOrphan ==
    /\ \E o \in orphans : orphans' = orphans \ {o}
    /\ UNCHANGED <<WebSocket, ws, callbacks, topics, is_running, monitor_thread, pingDue>>
    /\ UNCHANGED <<pc, frames, monloc, constructed, hist>>
    /\ UNCHANGED <<heartbeat, auth, inbound, strategy, retrying>>

\* More than ping_interval has passed since last_ping_time.
TimePasses ==
    /\ ~pingDue
    /\ pingDue' = TRUE
    /\ sendDue' = TRUE
    /\ UNCHANGED <<WebSocket, ws, orphans, callbacks, topics, is_running, monitor_thread>>
    /\ UNCHANGED <<pc, frames, monloc, constructed, hist>>
    /\ UNCHANGED <<pinged, auth, inbound, strategy, retrying>>

\* The clock passes the expires of line 78 (10 s after it was read) while the
\* constructor call of line 92 is still setting the session up.
Stall(th) ==
    /\ pc[th] = "c_construct"
    /\ th \notin stalled
    /\ stalled' = stalled \cup {th}
    /\ UNCHANGED <<shared, pc, frames, monloc, constructed, hist, heartbeat, late, inbound, strategy, retrying>>

(*--------------------------- specifications -----------------------------*)
Monitor(m, n) ==
    \/ MonLoop(m) \/ MonProbe(m) \/ MonProbe2(m) \/ Connect(m)
    \/ MonAfter(m, n) \/ MonPing(m) \/ MonWake(m)

\* One application thread uses the object, next to the monitor threads that
\* its connect() calls start.
OwnerConnect == CallConnect(Ctor) \/ Connect(Ctor)
OwnerSubscribe == CallSubscribe(Ctor, FewTopicLists, Cbs) \/ SubscribeStep(Ctor)
OwnerUnsubscribe == CallUnsubscribe(Ctor, FewTopicLists) \/ UnsubscribeStep(Ctor)
OwnerClose == CallClose(Ctor) \/ CloseTear(Ctor)
MonitorBriefly == \E m \in MonIds : Monitor(m, MaxFailures)

Next ==
    \/ OwnerConnect
    \/ OwnerSubscribe
    \/ OwnerUnsubscribe
    \/ OwnerClose
    \/ MonitorBriefly
    \/ Drop
    \/ DropOrphan

Spec == Init /\ [][Next]_vars

\* The application thread alone, with every argument: the monitor threads its
\* connect() calls start are not scheduled.
AloneSubscribe == CallSubscribe(Ctor, TopicLists, CbArgs) \/ SubscribeStep(Ctor)
AloneUnsubscribe == CallUnsubscribe(Ctor, TopicLists) \/ UnsubscribeStep(Ctor)

NextAlone ==
    \/ OwnerConnect
    \/ AloneSubscribe
    \/ AloneUnsubscribe
    \/ OwnerClose
    \/ Drop

SpecAlone == Init /\ [][NextAlone]_vars

\* The monitor loop over long runs of failures, next to the application
\* thread.
MonitorStep == \E m \in MonIds : Monitor(m, MaxAttempts)

WatchedSubscribe == CallSubscribe(Ctor, OneTopicList, Cbs) \/ SubscribeStep(Ctor)

NextMon ==
    \/ OwnerConnect
    \/ WatchedSubscribe
    \/ OwnerClose
    \/ MonitorStep
    \/ Drop
    \/ DropOrphan
    \/ TimePasses

SpecMon == Init /\ [][NextMon]_vars

\* The monitor loop with nothing subscribed, where the resubscribe loop of
\* connect() has nothing to visit.  A monitor thread that can take a step takes
\* one: the thread is a daemon thread of the interpreter, its sleeps end and
\* its calls return.
ConnectNoTopics(th) ==
    \/ ConnectBegin(th)
    \/ ConnectConstruct(th)
    \/ ConnectCheck(th)
    \/ ConnectMonChk(th)
    \/ ConnectSpawn(th)
MonitorNoTopics(m, n) ==
    \/ MonLoop(m) \/ MonProbe(m) \/ MonProbe2(m) \/ ConnectNoTopics(m)
    \/ MonAfter(m, n) \/ MonPing(m) \/ MonWake(m)
OwnerConnectNoTopics == CallConnect(Ctor) \/ ConnectNoTopics(Ctor)
MonitorRetry == \E m \in MonIds : MonitorNoTopics(m, MaxAttempts)

NextRetry ==
    \/ OwnerConnectNoTopics
    \/ OwnerClose
    \/ MonitorRetry
    \/ Drop
    \/ DropOrphan
    \/ TimePasses

FairSpecRetry ==
    /\ Init
    /\ [][NextRetry]_vars
    /\ \A m \in MonIds : WF_vars(MonitorNoTopics(m, MaxAttempts))

\* Two application threads use the object and nothing is subscribed: the
\* thread that constructed it connects and closes it at will, the other one
\* calls connect() once.
CallerConnect ==
    \E c \in Callers :
        \/ CallConnect(c) /\ (c = Ctor \/ ret[c] = NoRet)
        \/ ConnectNoTopics(c)
CallerClose == CallClose(Ctor) \/ CloseTear(Ctor)
MonitorBrieflyNoTopics == \E m \in MonIds : MonitorNoTopics(m, MaxFailures)

NextCallers ==
    \/ CallerConnect
    \/ CallerClose
    \/ MonitorBrieflyNoTopics
    \/ Drop

SpecCallers == Init /\ [][NextCallers]_vars

\* One subscribe() call on a connected object whose transport works, for topic
\* strings of every shape, followed by the messages the session delivers.
Heads == {<<c>> : c \in Categories \cup {"foo"}} \cup {<<c, "s">> : c \in Categories}
Parts == {<<>>} \cup {<<x>> : x \in Symbols \cup Intervals}
RECURSIVE Tails(_)
Tails(n) ==
    IF n = 0 THEN {<<>>}
    ELSE {<<Dot>> \o part \o rest : part \in Parts, rest \in Tails(n - 1)}
TopicStrings == {h \o rest : h \in Heads, rest \in UNION {Tails(n) : n \in 0..MaxParts}}
\* The lists passed: one topic, or one topic between two others.
SubscribeLists ==
    {<<t>> : t \in TopicStrings}
        \cup {<< <<"position">>, t, <<"kline", ".", "15", ".", "BTCUSDT">> >> : t \in TopicStrings}
\* What was subscribed before the call.
Subscribed == {{}, {<<"wallet">>}}

\* The object after __init__ connected it and subscribe(["wallet"], cb) may
\* have been called: the monitor thread sleeps after its first tick, the
\* caller has entered subscribe(list, cb).
InitTopics ==
    /\ WebSocket = TRUE
    /\ topics \in Subscribed
    /\ ws = [obj |-> TRUE, connected |-> TRUE, subs |-> topics]
    /\ orphans = {}
    /\ callbacks = [t \in topics |-> CHOOSE cb \in Cbs : TRUE]
    /\ is_running = TRUE
    /\ monitor_thread = 1
    /\ pingDue = FALSE
    /\ pc = [th \in Threads |->
               IF th = Ctor THEN "s_loop"
               ELSE IF th \in Callers THEN "idle"
               ELSE IF th = 1 THEN "m_sleep" ELSE "dead"]
    /\ current_topics = [th \in Threads |-> {}]
    /\ todo = [th \in Threads |-> {}]
    /\ ret = [th \in Threads |-> NoRet]
    /\ \E list \in SubscribeLists : args = [c \in Callers |-> IF c = Ctor THEN list ELSE <<>>]
    /\ \E cb \in CbArgs : cbArg = [c \in Callers |-> IF c = Ctor THEN cb ELSE NoCb]
    /\ success = [c \in Callers |-> TRUE]
    /\ reconnect_attempts = [m \in MonIds |-> 0]
    /\ sleepDur = [m \in MonIds |-> IF m = 1 THEN tick_interval ELSE 0]
    /\ constructed = TRUE
    /\ closed = FALSE
    /\ failed = [th \in Threads |-> {}]
    /\ raced = [th \in Threads |-> {}]
    /\ failLog = [m \in MonIds |-> <<>>]
    /\ recovered = [m \in MonIds |-> FALSE]
    /\ sendDue = FALSE
    /\ pinged = [m \in MonIds |-> IF m = 1 THEN "sent" ELSE "none"]
    /\ stalled = {}
    /\ late = FALSE
    /\ inbound = NoInbound
    /\ NoAnalysis
    /\ NoRetry

SubscribeWorking == SubscribeRound(Ctor, {TRUE})
Inbound == \E msg \in Msgs : pc[Ctor] = "idle" /\ Dispatch(msg)

NextTopics ==
    \/ SubscribeWorking
    \/ Inbound

SpecTopics == InitTopics /\ [][NextTopics]_vars

\* The thread that constructed the object connects and closes it at will while
\* the clock may pass the expires of its connect() during the constructor call
\* of the session; the monitor runs next to it.
OwnerStall == Stall(Ctor)

NextAuth ==
    \/ OwnerConnectNoTopics
    \/ OwnerStall
    \/ CallerClose
    \/ MonitorBrieflyNoTopics
    \/ Drop

SpecAuth == Init /\ [][NextAuth]_vars

\* analyze() is called again and again on a strategy object of either class;
\* the socket object is left as __init__ made it.
InitAnalyze ==
    /\ InitSocket
    /\ WebSocket
    /\ NoAnalysisOf(StrategyClasses, {EmptyDict})
    /\ NoRetry

NextAnalyze ==
    \/ AnalyzeCall
    \/ AnalyzeEmpty
    \/ AnalyzeMin
    \/ AnalyzeIndicators
    \/ AnalyzeSignals

SpecAnalyze == InitAnalyze /\ [][NextAnalyze]_vars

\* The cache of a strategy object: analyze() is called for every key with an
\* empty and with a long DataFrame, clear_cache() is called between the
\* calls, and another thread reads the cache at any moment.
CacheAnalyze ==
    AnalyzeCallWith({[rows |-> r, columns |-> TRUE] : r \in {0, MaxBars}}, CacheKeys)

NextCache ==
    \/ CacheAnalyze
    \/ AnalyzeEmpty
    \/ AnalyzeMin
    \/ AnalyzeIndicators
    \/ AnalyzeSignals
    \/ \E sym \in CacheKeys : ReadCache(sym)
    \/ \E arg \in {<<>>} \cup {<<sym>> : sym \in CacheKeys} : ClearCache(arg)

SpecCache == InitAnalyze /\ [][NextCache]_vars

\* check_multi_timeframe_confirmation() is called again and again, for base
\* intervals on and off the ladder.
NextConfirm ==
    \/ ConfirmCall({"15", "60", "240", "D", "15m", "5"}, {"buy", "sell"})
    \/ ConfirmAnalyze
    \/ AnalyzeEmpty
    \/ ConfirmNext

SpecConfirm == InitAnalyze /\ [][NextConfirm]_vars

\* DonchianStrategy.generate_signals() on every bar of Bars.
InitSignals ==
    /\ InitSocket
    /\ WebSocket
    /\ NoAnalysisOf({"DonchianStrategy"}, Bars)
    /\ NoRetry

SpecSignals == InitSignals /\ [][GenerateSignals]_vars

\* A DonchianStrategy with its default parameters, no method called.
InitDonchian ==
    /\ InitSocket
    /\ WebSocket
    /\ NoAnalysisOf({"DonchianStrategy"}, {EmptyDict})
    /\ NoRetry

SpecSizing == InitDonchian /\ [][CalculatePositionSize]_vars

\* calculate_indicators() and then generate_signals() on one window.
SpecWindow == InitDonchian /\ [][CalculateIndicators \/ GenerateSignals]_vars

\* Calls of a function decorated with retry().
SpecDecorated == InitDonchian /\ [][RetryCall \/ RetryAttempt \/ RetrySleep]_vars

(*------------------------------- claims ---------------------------------*)
\* What connect() returned to thread th, while th has not gone on.
ConnectReturned(th, val) == ret[th] = Result("connect", val)

\* C1 - Reconnect fidelity: when connect() returns True, the topics subscribed
\* on the session in self.ws are the topics of self.topics at the snapshot
\* minus exactly those whose resubscribe call failed, on every path that
\* returns True.
C1_ReconnectFidelity ==
    \A th \in Threads :
        ConnectReturned(th, TRUE)
            => ws.obj /\ ws.subs = current_topics[th] \ failed[th]

\* C2 - After close() has returned and until a caller calls connect() again,
\* there is no session object and no open session that could deliver a
\* callback, whatever a monitor tick was doing when close() ran.
C2_ClosedStaysClosed ==
    (closed /\ \A c \in Callers : ~InConnect(c)) => (~ws.obj /\ orphans = {})

\* C3 - connect() is mutually exclusive: at no time are two threads inside
\* connect() for the same object.
C3_ConnectExclusive ==
    Cardinality({th \in Threads : InConnect(th)}) <= 1

\* C4 - A subscribe that succeeded while a monitor was inside connect(), after
\* its snapshot, is not dropped: when that connect() returns True (the object
\* not closed, no caller reconnecting), every such topic still in self.topics
\* is subscribed on the session in self.ws.
C4_SubscribeSurvivesReconnect ==
    \A m \in MonIds :
        (/\ pc[m] = "m_after"
         /\ ConnectReturned(m, TRUE)
         /\ ws.obj /\ is_running /\ ~closed
         /\ \A c \in Callers : ~InConnect(c))
            => \A t \in raced[m] \cap topics : t \in ws.subs

\* C5 - Backoff growth: in each monitor loop, the sleeps after the failures
\* since the last successful reconnect never decrease; failure i is followed
\* by reconnect_interval when i < max_consecutive_failures, and by twice
\* reconnect_interval with a critical report from the
\* max_consecutive_failures-th on.
C5_BackoffGrowth ==
    \A m \in MonIds : \A i \in 1..Len(failLog[m]) :
        /\ failLog[m][i].dur =
              IF i < max_consecutive_failures THEN reconnect_interval
              ELSE 2 * reconnect_interval
        /\ failLog[m][i].critical = (i >= max_consecutive_failures)
        /\ i > 1 => failLog[m][i - 1].dur <= failLog[m][i].dur

\* A monitor sleeps after a failure past the max_consecutive_failures-th of a run.
C5_Witness ==
    \E m \in MonIds :
        /\ pc[m] = "m_sleep"
        /\ Len(failLog[m]) > max_consecutive_failures
        /\ sleepDur[m] = 2 * reconnect_interval

\* C6 - A successful reconnect resets the counter: reconnect_attempts is the
\* number of failures since the last successful reconnect (0 right after
\* one), so the first failure after a success sleeps reconnect_interval, and
\* the doubled sleep and the critical report come only with at least
\* max_consecutive_failures failures in a row.
C6_SuccessResets ==
    \A m \in MonIds :
        /\ reconnect_attempts[m] = Len(failLog[m])
        /\ Len(failLog[m]) = 1 => failLog[m][1] = [dur |-> reconnect_interval, critical |-> FALSE]
        /\ \A i \in 1..Len(failLog[m]) :
              (failLog[m][i].critical \/ failLog[m][i].dur > reconnect_interval)
                  => i >= max_consecutive_failures

\* A monitor that reconnected after failures sleeps after its next failure.
C6_Witness ==
    \E m \in MonIds :
        /\ recovered[m]
        /\ pc[m] = "m_sleep"
        /\ Len(failLog[m]) = 1
        /\ reconnect_attempts[m] = 1

\* C7 - Retries never give up: a reconnect attempt that failed is followed by
\* another attempt of the same monitor, unless the running flag is cleared or
\* the transport is live again, however many failures came before; and a
\* monitor loop ends only at a moment when the running flag is false.
C7_RetriesForever ==
    /\ \A m \in MonIds :
          [](pc[m] = "m_after" /\ ConnectReturned(m, FALSE)
               => <>(pc[m] = "c_begin" \/ ~is_running \/ SockConnected))
    /\ [][\A m \in MonIds : (IsAlive(m) /\ ~IsAlive(m)') => ~is_running]_vars

\* A monitor starts another attempt after max_consecutive_failures failures.
C7_Witness ==
    \E m \in MonIds :
        /\ pc[m] = "c_begin"
        /\ reconnect_attempts[m] >= max_consecutive_failures
        /\ is_running

\* C8 - A connect() of a caller that returns False, the client library being
\* there and the object not closed, leaves a monitor thread alive that will
\* call connect() again; this includes the connect() of the constructor.
C8_FailedConnectRetried ==
    \A c \in Callers :
        (WebSocket /\ ConnectReturned(c, FALSE) /\ ~closed /\ is_running)
            => \E m \in MonIds : IsAlive(m)

\* C9 - Cancellation: every sleep of a monitor loop is followed by the check
\* of the running flag, the loop ends at that check when the flag is false,
\* and no step of a connect() that a monitor has in progress sets a cleared
\* flag back to true.
C9_CancelAtSleepBoundary ==
    [][\A m \in MonIds :
         /\ (pc[m] = "m_sleep" /\ pc'[m] # "m_sleep") => pc'[m] = "m_loop"
         /\ (pc[m] = "m_loop" /\ pc'[m] # "m_loop" /\ ~is_running) => pc'[m] = "dead"
         /\ (InConnect(m) /\ pc'[m] # pc[m] /\ ~is_running) => ~is_running']_vars

\* C10 - A topic whose resubscribe failed during a reconnect is not in
\* self.topics once connect() has returned True, and the topics that were
\* resubscribed are.
C10_FailedTopicInactive ==
    \A th \in Threads :
        ConnectReturned(th, TRUE)
            => /\ failed[th] \cap topics = {}
               /\ (current_topics[th] \ failed[th]) \subseteq topics

\* C11 - A reconnect never changes or removes a registered callback: no step
\* of a connect(), whatever it returns, changes self.callbacks, so a message
\* that arrives after the reconnect finds the callback registered before it.
C11_CallbacksSurviveReconnect ==
    [][\A th \in Threads :
         (InConnect(th) /\ (pc'[th] # pc[th] \/ todo'[th] # todo[th]))
            => callbacks' = callbacks]_vars

\* A connect() returned True after it resubscribed a topic that has a callback.
C11_Witness ==
    \E th \in Threads :
        /\ ConnectReturned(th, TRUE)
        /\ \E t \in current_topics[th] \ failed[th] :
               t \in ws.subs /\ Registered(callbacks, t) # NoCb

\* C12 - Dispatch reaches the registered callback: a message that belongs to a
\* subscribed topic of the wire grammar (category, category.symbol,
\* kline.interval.symbol) with a registered callback calls that callback once,
\* and a message calls nothing but a registered callback.
C12_DispatchReachesCallback ==
    LET Grammar(t) ==
            \/ \E c \in Categories : t = <<c>>
            \/ \E c \in Categories, x \in Symbols : t = <<c, Dot, x>>
            \/ \E i \in Intervals, x \in Symbols : t = <<"kline", Dot, i, Dot, x>>
    IN  inbound # NoInbound =>
            /\ \A t \in topics \cap ws.subs :
                   (Grammar(t) /\ Registered(callbacks, t) # NoCb /\ Carries(t, inbound.msg))
                        => inbound.calls = <<Registered(callbacks, t)>>
            /\ \A i \in 1..Len(inbound.calls) :
                   \E t \in DOMAIN callbacks : callbacks[t] = inbound.calls[i]

\* C13 - Topic grammar: with a working transport, subscribing a topic string
\* succeeds if and only if it has the shape category, category.symbol or
\* kline.interval.symbol with a category of the six; any other string returns
\* False and is not added to self.topics.
C13_TopicGrammar ==
    [][LET Grammar(t) ==
              \/ \E k \in Categories : t = <<k>>
              \/ \E k \in Categories, x \in Symbols : t = <<k, Dot, x>>
              \/ \E i \in Intervals, x \in Symbols : t = <<"kline", Dot, i, Dot, x>>
       IN  \A c \in Callers :
             (pc[c] = "s_loop" /\ args'[c] # args[c] /\ success[c])
                => /\ success'[c] = Grammar(Head(args[c]))
                   /\ Grammar(Head(args[c])) => Head(args[c]) \in topics'
                   /\ ~Grammar(Head(args[c])) => topics' = topics]_vars

\* C14 - A malformed topic is rejected on its own: in one subscribe() call with
\* a topic between two well-formed ones, the topic in the middle is added to
\* self.topics when it is well-formed and is not added and makes the call
\* return False when it is malformed; the topic after it is added all the
\* same, and the session and the topics that were active stay as they were.
C14_MalformedTopicIsolated ==
    [][LET Grammar(t) ==
              \/ \E k \in Categories : t = <<k>>
              \/ \E k \in Categories, x \in Symbols : t = <<k, Dot, x>>
              \/ \E i \in Intervals, x \in Symbols : t = <<"kline", Dot, i, Dot, x>>
       IN  \A c \in Callers :
             /\ (pc[c] = "s_loop" /\ args'[c] # args[c] /\ Len(args[c]) = 2)
                  => /\ Grammar(Head(args[c])) => Head(args[c]) \in topics'
                     /\ ~Grammar(Head(args[c])) =>
                           (Head(args[c]) \in topics' <=> Head(args[c]) \in topics)
                     /\ ~Grammar(Head(args[c])) => ~success'[c]
                     /\ topics \subseteq topics'
                     /\ ws'.obj /\ ws'.connected = ws.connected
                     /\ ws.subs \subseteq ws'.subs
             /\ (pc[c] = "s_loop" /\ args'[c] # args[c] /\ ~success[c])
                  => /\ Grammar(Head(args[c])) => Head(args[c]) \in topics'
                     /\ topics \subseteq topics'
                     /\ ~success'[c]
                     /\ Len(args[c]) = 1 => ret'[c] = Result("subscribe", FALSE)]_vars

C16_HeartbeatCadence ==
    [][\A m \in MonIds :
         /\ (pc[m] = "m_ping" /\ pc'[m] # "m_ping")
               => (pinged'[m] \in {"sent", "closed", "error"} <=> (SockConnected /\ sendDue))
         /\ (pc[m] = "m_after" /\ pc'[m] # "m_after" /\ ~ret[m].val)
               => (pc'[m] = "m_sleep" /\ pinged'[m] = "none")]_vars

\* C17 - A failure while sending a heartbeat does not disturb the monitor: the
\* heartbeat step, whatever ping() did, leaves reconnect_attempts and the
\* failure log as they were and goes on to the 10 s sleep of the tick; the
\* sleep ends at the head of the loop; and the liveness check of a tick that
\* finds no session or a socket that is not connected calls connect().
C17_PingFailureHarmless ==
    [][\A m \in MonIds :
         /\ (pc[m] = "m_ping" /\ pc'[m] # "m_ping")
               => /\ pc'[m] = "m_sleep"
                  /\ sleepDur'[m] = tick_interval
                  /\ reconnect_attempts' = reconnect_attempts
                  /\ failLog' = failLog
                  /\ is_running' = is_running
         /\ (pc[m] = "m_sleep" /\ pc'[m] # "m_sleep") => pc'[m] = "m_loop"
         /\ (pc[m] = "m_loop" /\ pc'[m] # "m_loop" /\ is_running) => pc'[m] = "m_probe"
         /\ (pc[m] = "m_probe" /\ pc'[m] # "m_probe" /\ ~ws.obj) => pc'[m] = "c_begin"
         /\ (pc[m] = "m_probe2" /\ pc'[m] # "m_probe2" /\ ws.obj /\ ~ws.connected)
               => pc'[m] = "c_begin"]_vars

\* A monitor sleeps after a tick whose ping() raised, with the socket lost.
C17_Witness ==
    \E m \in MonIds :
        /\ pc[m] = "m_sleep"
        /\ pinged[m] \in {"closed", "error"}
        /\ ~SockConnected

\* C18 - At most one monitor task: whatever connect() and close() calls the
\* caller threads and the monitor make and however they interleave, at most
\* one monitor thread is alive.
C18_OneMonitor == Cardinality({m \in MonIds : IsAlive(m)}) <= 1

\* C19 - Authentication is time-boxed: connect() does not return True for a
\* session whose constructor call finished after the expires that connect()
\* had computed for it (the clock plus time_offset plus 10 s at line 78).
C19_NoSuccessAfterExpiry ==
    \A th \in Threads : ConnectReturned(th, TRUE) => ~late

\* C20 - Insufficient data: when analyze() has returned for a DataFrame that is
\* empty or has fewer rows than get_min_required_candles(), it returned a dict
\* with signal "neutral" and strength 0 and called neither
\* calculate_indicators nor generate_signals.
C20_InsufficientData ==
    (apc = "done" /\ (Empty(df) \/ df.rows < get_min_required_candles(strategyClass)))
        => /\ returned # None
           /\ Get(returned, "signal", "") = "neutral"
           /\ Get(returned, "strength", -1) = 0
           /\ invoked = <<>>

\* analyze() has returned for a DataFrame that has rows and columns, one row
\* fewer than the strategy needs.
C20_Witness ==
    /\ apc = "done"
    /\ ~Empty(df)
    /\ df.rows = get_min_required_candles(strategyClass) - 1
    /\ returned = Neutral(symbol, TRUE)

\* C21 - The neutral result for insufficient input carries a reason: when
\* analyze() has returned for a DataFrame that is empty, or that is not empty
\* but has fewer rows than get_min_required_candles(), the dict it returned
\* has a key that explains why.
C21_NeutralHasReason ==
    (apc = "done" /\ df # StrArg /\ (Empty(df) \/ TooFew(df, strategyClass)))
        => "error" \in DOMAIN returned

\* C22 - Strategy errors downgrade to neutral: when analyze() has returned for
\* a DataFrame with enough rows, it returned a dict, never None; and when
\* calculate_indicators or generate_signals raised or gave None, that dict has
\* signal "neutral", strength 0 and a reason.
C22_ErrorsDowngrade ==
    (apc = "done" /\ df # StrArg /\ ~Empty(df) /\ ~TooFew(df, strategyClass))
        => /\ returned # None
           /\ (Len(invoked) < 2 \/ returned.indicators = None)
                 => /\ returned.signal = "neutral"
                    /\ returned.strength = 0
                    /\ "error" \in DOMAIN returned

\* C23 - The cache of a symbol is never partially updated: whenever no
\* analyze() call is in progress, each key is either in none of
\* self.indicators, self.cached_signals and self.last_update_time or in all
\* three with entries written by the same call, and its signal is not None.
C23_CacheWhole ==
    apc \in {"idle", "done"} =>
        \A sym \in CacheKeys :
            \/ /\ sym \notin DOMAIN indicators
               /\ sym \notin DOMAIN cached_signals
               /\ sym \notin DOMAIN last_update_time
            \/ /\ sym \in DOMAIN indicators
               /\ sym \in DOMAIN cached_signals
               /\ sym \in DOMAIN last_update_time
               /\ origin.indicators[sym] = origin.cached_signals[sym]
               /\ origin.indicators[sym] = last_update_time[sym]
               /\ cached_signals[sym] # None

\* C24 - A reader of the cache never finds, for one symbol, indicators written
\* by one analyze() call next to a signal or an update time written by another
\* call.
C24_ReaderSeesOneCall ==
    \A i \in 1..Len(observed) :
        /\ (observed[i].indicators # 0 /\ observed[i].cached_signals # 0)
              => observed[i].indicators = observed[i].cached_signals
        /\ (observed[i].indicators # 0 /\ observed[i].last_update_time # 0)
              => observed[i].indicators = observed[i].last_update_time

\* C25 - clear_cache(symbol) removes that symbol's entries from the three cache
\* dicts and leaves the entries of every other symbol as they were, for every
\* string that can be a key; clear_cache() without a symbol empties the three
\* dicts.
C25_ClearCacheFrame ==
    \A i \in 1..Len(cleared) :
        LET Without(d, key) == [k \in DOMAIN d \ {key} |-> d[k]]
            before == cleared[i]
        IN  IF before.arg = <<>>
            THEN /\ indicators = EmptyDict
                 /\ cached_signals = EmptyDict
                 /\ last_update_time = EmptyDict
            ELSE /\ indicators = Without(before.indicators, before.arg[1])
                 /\ cached_signals = Without(before.cached_signals, before.arg[1])
                 /\ last_update_time = Without(before.last_update_time, before.arg[1])

\* C29 - Breakout detection: when analyze() of a DonchianStrategy with its
\* default parameters has returned for a window of 25 bars, which is what the
\* breakout scenario passes, the result is a buy with a strength strictly
\* between 0.5 and 0.9.
C29_BreakoutDetected ==
    (apc = "done" /\ strategyClass = "DonchianStrategy" /\ df = [rows |-> 25, columns |-> TRUE])
        => /\ Get(returned, "signal", "") = "buy"
           /\ Get(returned, "strength", 0) > 50
           /\ Get(returned, "strength", 0) < 90

\* C26 - Confirmation math: when check_multi_timeframe_confirmation() has
\* returned after selecting n >= 1 timeframes, it has the signals of all n,
\* confirmations is the number of them that equal the base kind or are
\* neutral, confidence is confirmations / n and confirmed is confidence >= 0.5.
C26_ConfirmationMath ==
    (cpc = "done" /\ check_intervals # <<>>) =>
        LET n == Len(check_intervals)
            k == Cardinality({i \in 1..Len(details) :
                                details[i].signal \in {signal_type, "neutral"}})
        IN  /\ Len(details) = n
            /\ Get(confirmation, "confirmations", -1) = k
            /\ Get(confirmation, "confidence", <<>>) = <<k, n>>
            /\ confirmation.confirmed = (2 * k >= n)

\* C27 - Timeframe selection: for a base interval on the ladder 15m < 1h < 4h
\* < 1d the selected intervals are those strictly coarser than the base, in
\* ladder order; for a base interval that is not on the ladder they are all
\* ladder entries but the finest.
C27_TimeframeSelection ==
    cpc # "idle" =>
        LET ladder == <<"15", "60", "240", "D">>
            onLadder == \E i \in 1..4 : ladder[i] = base_interval
            finer == IF onLadder THEN CHOOSE i \in 1..4 : ladder[i] = base_interval ELSE 1
        IN  /\ Len(check_intervals) = 4 - finer
            /\ \A i \in 1..Len(check_intervals) : check_intervals[i] = ladder[finer + i]

\* The confirmation of a signal on the 1h interval has selected 4h and 1d.
C27_Witness ==
    /\ cpc = "done"
    /\ base_interval = "60"
    /\ check_intervals = <<"240", "D">>

\* C28 - No timeframe selected: when check_multi_timeframe_confirmation() has
\* returned for the coarsest base interval, the result is confirmed = true
\* with confidence = 1.0, and analyze() was not called.
C28_NothingSelected ==
    (cpc = "done" /\ check_intervals = <<>>) =>
        /\ confirmation.confirmed
        /\ Get(confirmation, "confidence", <<>>) = <<1, 1>>
        /\ invoked = <<>>

\* C30 - Signal rule priority: generate_signals() returns the kind of the
\* first rule, in the order buy, sell, exit_long, exit_short, buy_weak,
\* sell_weak, whose condition holds, and neutral if none holds; buy is the
\* close crossing above the upper bound with volume ratio above the threshold
\* and the trend up, sell the symmetric condition with the trend down; exit
\* signals have strength 0.7, weak signals 0.3 and neutral 0.
C30_RulePriority ==
    generated # Pending =>
        LET kinds == <<"buy", "sell", "exit_long", "exit_short", "buy_weak", "sell_weak">>
            holds ==
              [buy        |-> /\ bar.current_close > bar.highest_high
                              /\ bar.previous_close <= bar.highest_high
                              /\ bar.volume_ratio > 15
                              /\ bar.trend_up,
               sell       |-> /\ bar.current_close < bar.lowest_low
                              /\ bar.previous_close >= bar.lowest_low
                              /\ bar.volume_ratio > 15
                              /\ ~bar.trend_up,
               exit_long  |-> /\ bar.current_close < bar.exit_low
                              /\ bar.previous_close >= bar.exit_low,
               exit_short |-> /\ bar.current_close > bar.exit_high
                              /\ bar.previous_close <= bar.exit_high,
               buy_weak   |-> /\ 2 * bar.current_close > 2 * bar.highest_high - bar.atr
                              /\ bar.current_close < bar.highest_high,
               sell_weak  |-> /\ 2 * bar.current_close < 2 * bar.lowest_low + bar.atr
                              /\ bar.current_close > bar.lowest_low]
            matching == {i \in 1..6 : holds[kinds[i]]}
            first == IF matching = {} THEN "neutral"
                     ELSE kinds[CHOOSE i \in matching : \A j \in matching : i <= j]
        IN  /\ generated.signal = first
            /\ generated.signal \in {"exit_long", "exit_short"} => generated.strength = 70
            /\ generated.signal \in {"buy_weak", "sell_weak"} => generated.strength = 30
            /\ generated.signal = "neutral" => generated.strength = 0

\* An exit from a long position was signalled on a bar that is also close to
\* both channel bounds: the earlier rule won.
C30_Witness ==
    /\ generated # Pending
    /\ generated.signal = "exit_long"
    /\ 2 * bar.current_close > 2 * bar.highest_high - bar.atr
    /\ bar.current_close < bar.highest_high

\* C31 - Signal strength bound: whatever kind of signal generate_signals()
\* has produced, buy and sell with their computed strength included, its
\* strength lies between 0 and 1 (0 and 100 hundredths).
C31_StrengthBound ==
    generated # Pending =>
        /\ generated.strength >= 0
        /\ generated.strength <= 100

\* A buy whose volume ratio, rate of change and volatility add up to more
\* than 0.9 was produced.
C31_Witness ==
    /\ generated # Pending
    /\ generated.signal = "buy"
    /\ 50 + bar.volume_ratio + 10 * bar.roc + bar.volatility > 100

\* C32 - Position sizing: when the stop is away from the price and the call
\* succeeds, the size calculate_position_size() returns is, up to the
\* rounding of its last decimal, risk_amount / risk_per_unit, or
\* (account_size x max_risk_percent / 100) / risk_per_unit when an account
\* size is given and that is smaller;
\* price 100, stop 95 and risk_amount 500 give risk_per_unit 5 and size 100,
\* and with account_size 1000 and max_risk_percent 1 size 2.
C32_PositionSizing ==
    (sized # Pending /\ order.price # order.stop_loss /\ "error" \notin DOMAIN sized) =>
        LET rpu == IF order.price >= order.stop_loss THEN order.price - order.stop_loss
                   ELSE order.stop_loss - order.price
            capped == /\ order.account_size # <<>>
                      /\ order.account_size[1] * order.max_risk_percent < 100 * order.risk_amount
            budget == IF capped THEN order.account_size[1] * order.max_risk_percent
                      ELSE 100 * order.risk_amount
            ulp == IF order.price < 10 THEN 1 ELSE IF order.price < 100 THEN 10
                   ELSE IF order.price < 10000 THEN 100 ELSE 1000
            error == sized.position_size * rpu - 100 * budget
            example == /\ order.price = 1000
                       /\ order.stop_loss = 950
                       /\ order.risk_amount = 500
        IN  /\ 2 * error <= ulp * rpu
            /\ -2 * error <= ulp * rpu
            /\ (example /\ order.account_size = <<>>) =>
                   sized.risk_per_unit = 50 /\ sized.position_size = 100000
            /\ (example /\ order.account_size = <<1000>> /\ order.max_risk_percent = 1) =>
                   sized.risk_per_unit = 50 /\ sized.position_size = 2000

\* The capped example: price 100, stop 95, risk 500 on an account of 1000 with
\* 1 percent at risk was sized.
C32_Witness ==
    /\ sized # Pending
    /\ order = [price |-> 1000, stop_loss |-> 950, risk_amount |-> 500,
                account_size |-> <<1000>>, max_risk_percent |-> 1]
    /\ sized.position_size = 2000

\* C33 - Sizing errors are values: calculate_position_size() never raises; it
\* returns position_size = 0 with a non-empty reason whenever the stop is at
\* the price or the rounded size is zero or negative, which includes a risk
\* amount of zero or less and an account size of zero; every other result has
\* a strictly positive position_size.
C33_SizingErrorsAreValues ==
    sized # Pending =>
        LET degenerate == \/ order.price = order.stop_loss
                          \/ order.risk_amount <= 0
                          \/ order.account_size = <<0>>
        IN  /\ "raised" \notin DOMAIN sized
            /\ degenerate => sized.position_size = 0
            /\ sized.position_size = 0 => ("error" \in DOMAIN sized /\ sized.error # "")
            /\ sized.position_size # 0 => ("error" \notin DOMAIN sized /\ sized.position_size > 0)

\* A call with the stop at the price returned the error value.
C33_Witness ==
    /\ sized # Pending
    /\ order.price = order.stop_loss
    /\ order.risk_amount > 0
    /\ sized.position_size = 0

\* C39 - The realised risk never exceeds the budget: for every successful
\* calculate_position_size() result, position_size x |price - stop_loss| is
\* at most risk_amount, and at most account_size x max_risk_percent / 100
\* when an account size is given.
C39_RiskWithinBudget ==
    (sized # Pending /\ "error" \notin DOMAIN sized) =>
        /\ sized.actual_risk_amount <= 10000 * order.risk_amount
        /\ order.account_size # <<>> =>
               sized.actual_risk_amount <= 100 * order.account_size[1] * order.max_risk_percent

\* C38 - When generate_signals() is applied to the indicators that
\* calculate_indicators() computed from the same window, a window with a
\* timestamp column whose bars have low <= close <= high, it never returns
\* buy, sell, exit_long or exit_short: the result is neutral, buy_weak or
\* sell_weak.
C38_NoBreakoutSignal ==
    (window # EmptyDict /\ generated # Pending) =>
        generated.signal \in {"neutral", "buy_weak", "sell_weak"}

\* The newest close lies above every high of the bars before it, with raised
\* volume in an up trend, and the signal is buy_weak.
C38_Witness ==
    /\ window # EmptyDict
    /\ generated # Pending
    /\ window.close > window.earlier_high20
    /\ window.volume_ratio > 15
    /\ window.trend_up
    /\ generated.signal = "buy_weak"

\* C40 - When a call of a function decorated with retry() has ended, the
\* function was called at most max_attempts times and not again after its
\* first success, whose result is returned; an exception that is not
\* retryable was re-raised at once; after max_attempts failures the last
\* exception of the function was re-raised with no sleep after the final
\* attempt; the sleep after attempt k was delay x 2^(k-1) with exponential
\* backoff and delay without; and for every max_attempts the wrapper returned
\* the function's result or raised an exception that the function raised.
C40_RetryContract ==
    rpc = "done" =>
        LET n == Len(tried)
            delayed(k) == IF retry_args.exponential_backoff
                          THEN retry_args.delay * 2 ^ (k - 1) ELSE retry_args.delay
        IN  /\ n <= retry_args.max_attempts
            /\ \A k \in 1..(n - 1) :
                   /\ tried[k] # "ok"
                   /\ should_retry(retry_args.allowed_exceptions, tried[k])
            /\ Len(slept) = n - 1
            /\ \A k \in 1..Len(slept) : slept[k] = delayed(k)
            /\ n >= 1
            /\ IF tried[n] = "ok"
               THEN retried = [returned |-> n]
               ELSE retried = [raised |-> [type |-> tried[n], attempt |-> n]]

\* C34 - Whenever connect() has returned True to a caller and close() has not
\* been called since, the running flag is true and a monitor thread is alive
\* for the connection, on every success path of connect(), the fallback with
\* fewer parameters included, and when the previous monitor was still inside
\* a sleep.
C34_MonitorAfterConnect ==
    \A c \in Callers :
        (ConnectReturned(c, TRUE) /\ ~closed)
            => /\ is_running
               /\ \E m \in MonIds : IsAlive(m)

\* C35 - A failed subscription of a single topic leaves the registry
\* unchanged: when the _subscribe_topic(t, cb) call of a subscribe() round
\* returned False, t has not been added to self.topics and self.callbacks is
\* what it was before the call.
C35_FailedSubscribeFrame ==
    [][\A c \in Callers :
         (pc[c] = "s_loop" /\ args'[c] # args[c] /\ success[c] /\ ~success'[c])
            => /\ topics' = topics
               /\ callbacks' = callbacks]_vars

\* C36 - subscribe() and unsubscribe() called while the object has no session,
\* before one exists or after close(), return False and leave self.topics and
\* self.callbacks unchanged.
C36_NoSessionNoEffect ==
    [][\A c \in Callers :
         (/\ pc[c] = "idle"
          /\ ~ws.obj
          /\ \/ pc'[c] \in {"s_loop", "u_loop"}
             \/ ret'[c] # ret[c] /\ ret'[c].op \in {"subscribe", "unsubscribe"})
            => /\ ret'[c].op \in {"subscribe", "unsubscribe"}
               /\ ret'[c].val = FALSE
               /\ pc'[c] = "idle"
               /\ topics' = topics
               /\ callbacks' = callbacks]_vars

\* A subscribe() on an object without a session has returned False while a
\* topic of an earlier session is still registered.
C36_Witness ==
    \E c \in Callers :
        /\ ret[c] = Result("subscribe", FALSE)
        /\ pc[c] = "idle"
        /\ ~ws.obj
        /\ topics # {}

\* C37 - analyze() on an empty or too short window leaves the cache unchanged
\* for every symbol: no step of such a call changes self.indicators,
\* self.cached_signals or self.last_update_time, which are all that
\* get_cached_signal() and should_update() read, and the call ends without
\* computing anything.
C37_InsufficientLeavesCache ==
    [][(/\ apc' # apc
        /\ df' # StrArg
        /\ Empty(df') \/ df'.rows < get_min_required_candles(strategyClass))
          => /\ indicators' = indicators
             /\ cached_signals' = cached_signals
             /\ last_update_time' = last_update_time
             /\ apc' \in {"a_empty", "a_min", "done"}]_vars

\* analyze() has returned the neutral result for a too short window of a
\* symbol whose signal of an earlier call is in the cache.
C37_Witness ==
    /\ apc = "done"
    /\ df # StrArg
    /\ ~Empty(df)
    /\ df.rows < get_min_required_candles(strategyClass)
    /\ returned # None
    /\ symbol \in DOMAIN cached_signals
    /\ cached_signals[symbol] # returned

====
